---- MODULE Spec2Model ----
(***************************************************************************)
(* RazorChess: the built-in search engine (simple-engine.ts), the adaptive *)
(* move selector and move classifier (adaptive-engine.ts), the player      *)
(* profile updater (player-profile code) and the game session hook         *)
(* (useChessGame.ts), as state machines.                                   *)
(*                                                                         *)
(* The rules library (chess.js) is an external collaborator.  A position   *)
(* is a record holding what the library reports about it: the side to      *)
(* move, the terminal status, the pieces on the board, the number of legal *)
(* moves and, for the part of the game tree a search can see, the legal    *)
(* moves in generation order with the position each leads to.              *)
(***************************************************************************)
EXTENDS Integers, Sequences, FiniteSets, TLC

VARIABLES
    \* the engine on its own: position, requested depth and width, results
    ePos, eDepth, eWidth, eResult, eMirror, ePc,
    \* selectMove: position, its height, game state, rating, the AdaptiveEngine
    \* object, the candidates the search returned, the outcome
    sPos, sDepth, sGame, sElo, sEngine, sCands, sOut, sPc,
    \* analyzePlayerMove: position before the move, the AdaptiveEngine object,
    \* the move played, the search result before the move, the GameMove made
    aPos, aEngine, aMove, aBefore, aOut, aPc,
    \* updateProfileFromGame: the profile, the profile and game last passed
    \* in, the rating change last returned, the number of calls made with
    \* any game and with one more lost game of a losing run
    pProfile, pBefore, pGame, pChange, pCalls, pStreak,
    \* useChessGame: the Chess object and the number of half-moves applied to
    \* it since its last reset; the React state; the AdaptiveEngine objects
    \* made so far (adaptiveRef points at the last); the engine-move timers
    \* set and not yet fired, each with the GameState it was given; the async
    \* handlers that have started and not yet finished; localStorage
    chess, plies, gameState, gameOver, isThinking, moveHistory,
    engines, gamesStarted, timers, frames,
    storedProfile, gameHistory, eloHistory,
    \* the last call of makePlayerMove (the move asked for, whether it was
    \* accepted, the game and half-move it was made at) and what the selector
    \* did in the last makeEngineMove
    attempt, fault,
    \* calculateTension: the list of moves and the tension computed for it
    tMoves, tOut, tPc,
    \* saveGameHistory: the stored history and the number of games saved
    hGames, hSaved,
    \* the storage helpers: what the three keys hold, the profile held by
    \* the game state, the error that has arisen, the stage of the game
    kProfile, kGames, kElo, kGame, kErr, kPc,
    \* StockfishEngine: the worker (running, hung, or none once destroyed),
    \* ready, resolveQueue, outputBuffer, isCollecting; the go commands the
    \* worker has yet to serve, the lines it has posted, the evaluate calls
    fWorker, fReady, fQueue, fBuffer, fCollecting, fJobs, fInbox, fCalls,
    \* sessions in several windows: the stored profile they share, and each
    \* window's finished game, loaded profile and place in handleGameEnd
    cStore, cTabs,
    \* maybeInjectMistake: the candidates, the selection, the configured
    \* mistake rate, the rating, the move returned
    mAll, mSelected, mRate, mElo, mOut, mPc,
    \* estimatePlayerStrength over a run of games: the stored profile, the
    \* game's AdaptiveEngine, the strength selectMove last estimated
    wProfile, wEngine, wStrength

engineVars == <<ePos, eDepth, eWidth, eResult, eMirror, ePc>>

selectVars == <<sPos, sDepth, sGame, sElo, sEngine, sCands, sOut, sPc>>

analyzeVars == <<aPos, aEngine, aMove, aBefore, aOut, aPc>>

profileVars == <<pProfile, pBefore, pGame, pChange, pCalls, pStreak>>

sessionVars == <<chess, plies, gameState, gameOver, isThinking, moveHistory,
                 engines, gamesStarted, timers, frames,
                 storedProfile, gameHistory, eloHistory, attempt, fault>>

tensionVars == <<tMoves, tOut, tPc>>

historyVars == <<hGames, hSaved>>

storageVars == <<kProfile, kGames, kElo, kGame, kErr, kPc>>

stockfishVars ==
    <<fWorker, fReady, fQueue, fBuffer, fCollecting, fJobs, fInbox, fCalls>>

tabsVars == <<cStore, cTabs>>

mistakeVars == <<mAll, mSelected, mRate, mElo, mOut, mPc>>

strengthVars == <<wProfile, wEngine, wStrength>>

vars == <<engineVars, selectVars, analyzeVars, profileVars, sessionVars,
         tensionVars, historyVars, storageVars, stockfishVars, tabsVars,
         mistakeVars, strengthVars>>

(* Each specification below runs one component; the variables of the      *)
(* other components keep these values throughout.                          *)
EngineUnused ==
    /\ ePos = "none" /\ eDepth = 0 /\ eWidth = 0
    /\ eResult = "none" /\ eMirror = "none" /\ ePc = "unused"

SelectUnused ==
    /\ sPos = "none" /\ sDepth = 0 /\ sGame = "none" /\ sElo = 0
    /\ sEngine = "none" /\ sCands = << >> /\ sOut = "none" /\ sPc = "unused"

AnalyzeUnused ==
    /\ aPos = "none" /\ aEngine = "none" /\ aMove = "none"
    /\ aBefore = "none" /\ aOut = "none" /\ aPc = "unused"

ProfileUnused ==
    /\ pProfile = "none" /\ pBefore = "none" /\ pGame = "none"
    /\ pChange = 0 /\ pCalls = 0 /\ pStreak = 0

SessionUnused ==
    /\ chess = "none" /\ plies = 0 /\ gameState = "none" /\ gameOver = FALSE
    /\ isThinking = FALSE /\ moveHistory = << >> /\ engines = << >>
    /\ gamesStarted = 0 /\ timers = {} /\ frames = {}
    /\ storedProfile = << >> /\ gameHistory = << >> /\ eloHistory = << >>
    /\ attempt = "none" /\ fault = "none"

TensionUnused ==
    /\ tMoves = << >> /\ tOut = 0 /\ tPc = "unused"

HistoryUnused ==
    /\ hGames = << >> /\ hSaved = 0

StorageUnused ==
    /\ kProfile = "none" /\ kGames = "none" /\ kElo = "none"
    /\ kGame = "none" /\ kErr = "none" /\ kPc = "unused"

StockfishUnused ==
    /\ fWorker = "unused" /\ fReady = FALSE /\ fQueue = << >> /\ fBuffer = << >>
    /\ fCollecting = FALSE /\ fJobs = << >> /\ fInbox = << >> /\ fCalls = << >>

TabsUnused ==
    /\ cStore = << >> /\ cTabs = << >>

MistakeUnused ==
    /\ mAll = << >> /\ mSelected = "none" /\ mRate = 0 /\ mElo = 0
    /\ mOut = "none" /\ mPc = "unused"

StrengthUnused ==
    /\ wProfile = "none" /\ wEngine = "none" /\ wStrength = -1

OnlyEngine ==
    /\ SelectUnused /\ AnalyzeUnused /\ ProfileUnused /\ SessionUnused
    /\ TensionUnused /\ HistoryUnused /\ StorageUnused /\ StockfishUnused
    /\ TabsUnused /\ MistakeUnused /\ StrengthUnused

OnlySelect ==
    /\ EngineUnused /\ AnalyzeUnused /\ ProfileUnused /\ SessionUnused
    /\ TensionUnused /\ HistoryUnused /\ StorageUnused /\ StockfishUnused
    /\ TabsUnused /\ MistakeUnused /\ StrengthUnused

OnlyAnalyze ==
    /\ EngineUnused /\ SelectUnused /\ ProfileUnused /\ SessionUnused
    /\ TensionUnused /\ HistoryUnused /\ StorageUnused /\ StockfishUnused
    /\ TabsUnused /\ MistakeUnused /\ StrengthUnused

OnlyProfile ==
    /\ EngineUnused /\ SelectUnused /\ AnalyzeUnused /\ SessionUnused
    /\ TensionUnused /\ HistoryUnused /\ StorageUnused /\ StockfishUnused
    /\ TabsUnused /\ MistakeUnused /\ StrengthUnused

OnlySession ==
    /\ EngineUnused /\ SelectUnused /\ AnalyzeUnused /\ ProfileUnused
    /\ TensionUnused /\ HistoryUnused /\ StorageUnused /\ StockfishUnused
    /\ TabsUnused /\ MistakeUnused /\ StrengthUnused

OnlyTension ==
    /\ EngineUnused /\ SelectUnused /\ AnalyzeUnused /\ ProfileUnused
    /\ SessionUnused /\ HistoryUnused /\ StorageUnused /\ StockfishUnused
    /\ TabsUnused /\ MistakeUnused /\ StrengthUnused

OnlyHistory ==
    /\ EngineUnused /\ SelectUnused /\ AnalyzeUnused /\ ProfileUnused
    /\ SessionUnused /\ TensionUnused /\ StorageUnused /\ StockfishUnused
    /\ TabsUnused /\ MistakeUnused /\ StrengthUnused

OnlyStorage ==
    /\ EngineUnused /\ SelectUnused /\ AnalyzeUnused /\ ProfileUnused
    /\ SessionUnused /\ TensionUnused /\ HistoryUnused /\ StockfishUnused
    /\ TabsUnused /\ MistakeUnused /\ StrengthUnused

OnlyStockfish ==
    /\ EngineUnused /\ SelectUnused /\ AnalyzeUnused /\ ProfileUnused
    /\ SessionUnused /\ TensionUnused /\ HistoryUnused /\ StorageUnused
    /\ TabsUnused /\ MistakeUnused /\ StrengthUnused

OnlyTabs ==
    /\ EngineUnused /\ SelectUnused /\ AnalyzeUnused /\ ProfileUnused
    /\ SessionUnused /\ TensionUnused /\ HistoryUnused /\ StorageUnused
    /\ StockfishUnused /\ MistakeUnused /\ StrengthUnused

OnlyMistake ==
    /\ EngineUnused /\ SelectUnused /\ AnalyzeUnused /\ ProfileUnused
    /\ SessionUnused /\ TensionUnused /\ HistoryUnused /\ StorageUnused
    /\ StockfishUnused /\ TabsUnused /\ StrengthUnused

OnlyStrength ==
    /\ EngineUnused /\ SelectUnused /\ AnalyzeUnused /\ ProfileUnused
    /\ SessionUnused /\ TensionUnused /\ HistoryUnused /\ StorageUnused
    /\ StockfishUnused /\ TabsUnused /\ MistakeUnused

notEngine ==
    <<selectVars, analyzeVars, profileVars, sessionVars, tensionVars,
      historyVars, storageVars, stockfishVars, tabsVars, mistakeVars,
      strengthVars>>

notSelect ==
    <<engineVars, analyzeVars, profileVars, sessionVars, tensionVars,
      historyVars, storageVars, stockfishVars, tabsVars, mistakeVars,
      strengthVars>>

notAnalyze ==
    <<engineVars, selectVars, profileVars, sessionVars, tensionVars,
      historyVars, storageVars, stockfishVars, tabsVars, mistakeVars,
      strengthVars>>

notProfile ==
    <<engineVars, selectVars, analyzeVars, sessionVars, tensionVars,
      historyVars, storageVars, stockfishVars, tabsVars, mistakeVars,
      strengthVars>>

notSession ==
    <<engineVars, selectVars, analyzeVars, profileVars, tensionVars,
      historyVars, storageVars, stockfishVars, tabsVars, mistakeVars,
      strengthVars>>

notTension ==
    <<engineVars, selectVars, analyzeVars, profileVars, sessionVars,
      historyVars, storageVars, stockfishVars, tabsVars, mistakeVars,
      strengthVars>>

notHistory ==
    <<engineVars, selectVars, analyzeVars, profileVars, sessionVars,
      tensionVars, storageVars, stockfishVars, tabsVars, mistakeVars,
      strengthVars>>

notStorage ==
    <<engineVars, selectVars, analyzeVars, profileVars, sessionVars,
      tensionVars, historyVars, stockfishVars, tabsVars, mistakeVars,
      strengthVars>>

notStockfish ==
    <<engineVars, selectVars, analyzeVars, profileVars, sessionVars,
      tensionVars, historyVars, storageVars, tabsVars, mistakeVars,
      strengthVars>>

notTabs ==
    <<engineVars, selectVars, analyzeVars, profileVars, sessionVars,
      tensionVars, historyVars, storageVars, stockfishVars, mistakeVars,
      strengthVars>>

notMistake ==
    <<engineVars, selectVars, analyzeVars, profileVars, sessionVars,
      tensionVars, historyVars, storageVars, stockfishVars, tabsVars,
      strengthVars>>

notStrength ==
    <<engineVars, selectVars, analyzeVars, profileVars, sessionVars,
      tensionVars, historyVars, storageVars, stockfishVars, tabsVars,
      mistakeVars>>

-----------------------------------------------------------------------------
(* Small arithmetic helpers (Math.abs, Math.max, Math.min).                *)

Abs(x) == IF x < 0 THEN -x ELSE x

Max(a, b) == IF a >= b THEN a ELSE b

Min(a, b) == IF a <= b THEN a ELSE b

-----------------------------------------------------------------------------
(* simple-engine.ts: piece values and piece-square tables.                 *)

PIECE_VALUES == [p |-> 100, n |-> 320, b |-> 330, r |-> 500, q |-> 900, k |-> 20000]

PST == [
  p |-> <<  0,  0,  0,  0,  0,  0,  0,  0,
           50, 50, 50, 50, 50, 50, 50, 50,
           10, 10, 20, 30, 30, 20, 10, 10,
            5,  5, 10, 25, 25, 10,  5,  5,
            0,  0,  0, 20, 20,  0,  0,  0,
            5, -5,-10,  0,  0,-10, -5,  5,
            5, 10, 10,-20,-20, 10, 10,  5,
            0,  0,  0,  0,  0,  0,  0,  0 >>,
  n |-> << -50,-40,-30,-30,-30,-30,-40,-50,
           -40,-20,  0,  0,  0,  0,-20,-40,
           -30,  0, 10, 15, 15, 10,  0,-30,
           -30,  5, 15, 20, 20, 15,  5,-30,
           -30,  0, 15, 20, 20, 15,  0,-30,
           -30,  5, 10, 15, 15, 10,  5,-30,
           -40,-20,  0,  5,  5,  0,-20,-40,
           -50,-40,-30,-30,-30,-30,-40,-50 >>,
  b |-> << -20,-10,-10,-10,-10,-10,-10,-20,
           -10,  0,  0,  0,  0,  0,  0,-10,
           -10,  0,  5, 10, 10,  5,  0,-10,
           -10,  5,  5, 10, 10,  5,  5,-10,
           -10,  0, 10, 10, 10, 10,  0,-10,
           -10, 10, 10, 10, 10, 10, 10,-10,
           -10,  5,  0,  0,  0,  0,  5,-10,
           -20,-10,-10,-10,-10,-10,-10,-20 >>,
  r |-> <<   0,  0,  0,  0,  0,  0,  0,  0,
             5, 10, 10, 10, 10, 10, 10,  5,
            -5,  0,  0,  0,  0,  0,  0, -5,
            -5,  0,  0,  0,  0,  0,  0, -5,
            -5,  0,  0,  0,  0,  0,  0, -5,
            -5,  0,  0,  0,  0,  0,  0, -5,
            -5,  0,  0,  0,  0,  0,  0, -5,
             0,  0,  0,  5,  5,  0,  0,  0 >>,
  q |-> << -20,-10,-10, -5, -5,-10,-10,-20,
           -10,  0,  0,  0,  0,  0,  0,-10,
           -10,  0,  5,  5,  5,  5,  0,-10,
            -5,  0,  5,  5,  5,  5,  0, -5,
             0,  0,  5,  5,  5,  5,  0, -5,
           -10,  5,  5,  5,  5,  5,  0,-10,
           -10,  0,  5,  0,  0,  0,  0,-10,
           -20,-10,-10, -5, -5,-10,-10,-20 >>,
  k |-> << -30,-40,-40,-50,-50,-40,-40,-30,
           -30,-40,-40,-50,-50,-40,-40,-30,
           -30,-40,-40,-50,-50,-40,-40,-30,
           -30,-40,-40,-50,-50,-40,-40,-30,
           -20,-30,-30,-40,-40,-30,-30,-20,
           -10,-20,-20,-20,-20,-20,-20,-10,
            20, 20,  0,  0,  0,  0, 20, 20,
            20, 30, 10,  0,  0, 10, 30, 20 >> ]

(* The value staticEval returns for a checkmate.                           *)
MATE_SCORE == 99999

(* Stands for JavaScript's Infinity: larger than every evaluation.         *)
Infinity == 1000000

(* new SimpleEngine(4): the depth used when evaluate is called without one. *)
EngineMaxDepth == 4

-----------------------------------------------------------------------------
(* The rules library, as the engine uses it.  A piece is                   *)
(* [type, color, row, file] with row and file the indices of chess.board() *)
(* (row 0 is rank 8).                                                      *)

Other(turn) == IF turn = "w" THEN "b" ELSE "w"

Turn(pos) == pos.turn

IsCheckmate(pos) == pos.status = "checkmate"

IsStalemate(pos) == pos.status = "stalemate"

IsDraw(pos) == pos.status = "draw"

IsGameOver(pos) == pos.status # "play"

(* chess.moves(): the legal moves, none when the game is over.             *)
Moves(pos) == IF IsGameOver(pos) THEN << >> ELSE pos.kids

(* chess.moves().length                                                    *)
MoveCount(pos) == IF IsGameOver(pos) THEN 0 ELSE pos.mob

-----------------------------------------------------------------------------
(* SimpleEngine.staticEval                                                 *)

PieceScore(piece) ==
    LET pieceValue == PIECE_VALUES[piece.type]
        pstIndex == IF piece.color = "w" THEN piece.row * 8 + piece.file
                    ELSE (7 - piece.row) * 8 + piece.file
        pstValue == PST[piece.type][pstIndex + 1]
    IN IF piece.color = "w" THEN pieceValue + pstValue
       ELSE -(pieceValue + pstValue)

RECURSIVE SumPieces(_)
SumPieces(S) ==
    IF S = {} THEN 0
    ELSE LET piece == CHOOSE x \in S : TRUE
         IN PieceScore(piece) + SumPieces(S \ {piece})

StaticEval(pos) ==
    IF IsCheckmate(pos) THEN (IF Turn(pos) = "w" THEN -MATE_SCORE ELSE MATE_SCORE)
    ELSE IF IsDraw(pos) \/ IsStalemate(pos) THEN 0
    ELSE LET mobilityBonus == MoveCount(pos) * 2
         IN SumPieces(pos.pieces)
            + (IF Turn(pos) = "w" THEN mobilityBonus ELSE -mobilityBonus)

-----------------------------------------------------------------------------
(* SimpleEngine.alphaBeta                                                  *)

CaptureScore(m) == IF m.captured = "none" THEN 0 ELSE PIECE_VALUES[m.captured]

(* Array.prototype.sort with (a, b) => bScore - aScore: stable, descending. *)
RECURSIVE InsertByCapture(_, _)
InsertByCapture(sorted, m) ==
    IF sorted = << >> THEN << m >>
    ELSE IF CaptureScore(Head(sorted)) >= CaptureScore(m)
         THEN << Head(sorted) >> \o InsertByCapture(Tail(sorted), m)
         ELSE << m >> \o sorted

RECURSIVE SortByCapture(_)
SortByCapture(ms) ==
    IF ms = << >> THEN << >>
    ELSE InsertByCapture(SortByCapture(SubSeq(ms, 1, Len(ms) - 1)), ms[Len(ms)])

RECURSIVE AlphaBeta(_, _, _, _, _)
RECURSIVE AlphaBetaLoop(_, _, _, _, _, _, _)

(* The for loop over the ordered moves, with its break on beta <= alpha.   *)
AlphaBetaLoop(ms, i, depth, alpha, beta, isMaximizing, best) ==
    IF i > Len(ms) THEN best
    ELSE LET score == AlphaBeta(ms[i].pos, depth - 1, alpha, beta, ~isMaximizing)
         IN IF isMaximizing
            THEN LET maxEval == Max(best, score)
                     a2 == Max(alpha, score)
                 IN IF beta <= a2 THEN maxEval
                    ELSE AlphaBetaLoop(ms, i + 1, depth, a2, beta, isMaximizing, maxEval)
            ELSE LET minEval == Min(best, score)
                     b2 == Min(beta, score)
                 IN IF b2 <= alpha THEN minEval
                    ELSE AlphaBetaLoop(ms, i + 1, depth, alpha, b2, isMaximizing, minEval)

AlphaBeta(pos, depth, alpha, beta, isMaximizing) ==
    IF depth = 0 \/ IsGameOver(pos) THEN StaticEval(pos)
    ELSE AlphaBetaLoop(SortByCapture(Moves(pos)), 1, depth, alpha, beta, isMaximizing,
                       IF isMaximizing THEN -Infinity ELSE Infinity)

-----------------------------------------------------------------------------
(* SimpleEngine.evaluate                                                   *)

(* score = -alphaBeta(child, searchDepth - 1, -Infinity, Infinity, !isWhite) *)
RootScore(pos, m, searchDepth) ==
    -AlphaBeta(m.pos, searchDepth - 1, -Infinity, Infinity, ~(Turn(pos) = "w"))

(* evaluated.sort((a, b) => b.score - a.score): stable, descending.        *)
RECURSIVE InsertByScore(_, _)
InsertByScore(sorted, e) ==
    IF sorted = << >> THEN << e >>
    ELSE IF Head(sorted).score >= e.score
         THEN << Head(sorted) >> \o InsertByScore(Tail(sorted), e)
         ELSE << e >> \o sorted

RECURSIVE SortByScore(_)
SortByScore(es) ==
    IF es = << >> THEN << >>
    ELSE InsertByScore(SortByScore(SubSeq(es, 1, Len(es) - 1)), es[Len(es)])

(* isWhite ? e.score : -e.score                                            *)
NormalizeToWhite(isWhite, score) == IF isWhite THEN score ELSE -score

Evaluate(pos, depth, multiPV) ==
    LET searchDepth == IF depth = 0 THEN EngineMaxDepth ELSE depth
        isWhite == Turn(pos) = "w"
        moves == Moves(pos)
        evaluated == [i \in 1..Len(moves) |->
                        [move |-> moves[i].uci,
                         score |-> RootScore(pos, moves[i], searchDepth)]]
        sorted == SortByScore(evaluated)
        top == SubSeq(sorted, 1, Min(multiPV, Len(sorted)))
        topMoves == [i \in 1..Len(top) |->
                        [move |-> top[i].move,
                         evaluation |-> NormalizeToWhite(isWhite, top[i].score),
                         depth |-> searchDepth,
                         isPV |-> (i = 1)]]
    IN [bestMoves |-> topMoves,
        evaluation |-> IF Len(topMoves) > 0 THEN topMoves[1].evaluation ELSE 0,
        depth |-> searchDepth]

-----------------------------------------------------------------------------
(* The positions the engine is run on: game trees of bounded height whose  *)
(* leaves carry boards of a small corpus.                                  *)

WK == [type |-> "k", color |-> "w", row |-> 7, file |-> 4]

BK == [type |-> "k", color |-> "b", row |-> 0, file |-> 4]

Corpus == <<
    [pieces |-> {WK, BK}, mob |-> 3],
    [pieces |-> {WK, BK, [type |-> "p", color |-> "w", row |-> 4, file |-> 4]}, mob |-> 4],
    [pieces |-> {WK, BK, [type |-> "n", color |-> "b", row |-> 2, file |-> 2]}, mob |-> 5],
    [pieces |-> {WK, BK, [type |-> "r", color |-> "w", row |-> 7, file |-> 0],
                         [type |-> "p", color |-> "b", row |-> 3, file |-> 4]}, mob |-> 6] >>

RootPieces == Corpus[4].pieces

MoveName == << "m1", "m2", "m3", "m4", "m5", "m6" >>

(* The largest number of legal moves of a root position.                   *)
MaxFan == 4

(* The largest depth a search is asked for.                                *)
MaxDepth == 3

Leaf(turn, board, status) ==
    [turn |-> turn, status |-> status, pieces |-> board.pieces,
     mob |-> IF status = "play" THEN board.mob ELSE 0, kids |-> << >>]

(* move.captured of a verbose move: the type of the opponent's piece that  *)
(* is on the board before the move and gone after it.                      *)
Captured(pieces, after, mover) ==
    LET gone == {p \in pieces : p.color = Other(mover) /\ p \notin after}
    IN IF gone = {} THEN "none" ELSE (CHOOSE p \in gone : TRUE).type

Node(turn, pieces, children) ==
    [turn |-> turn, status |-> "play", pieces |-> pieces, mob |-> Len(children),
     kids |-> [i \in 1..Len(children) |->
                 [uci |-> MoveName[i],
                  captured |-> Captured(pieces, children[i].pieces, turn),
                  pos |-> children[i]]]]

Tuples(S, lo, hi) == UNION {[1..n -> S] : n \in lo..hi}

Leaves(turn) ==
    {Leaf(turn, Corpus[i], "play") : i \in 1..Len(Corpus)}
        \cup {Leaf(turn, Corpus[1], "checkmate")}

FewLeaves(turn) ==
    {Leaf(turn, Corpus[i], "play") : i \in 1..3}
        \cup {Leaf(turn, Corpus[1], "checkmate"), Leaf(turn, Corpus[1], "stalemate")}

TwoLeaves(turn) == {Leaf(turn, Corpus[2], "play"), Leaf(turn, Corpus[3], "play")}

(* Height 1: up to MaxFan legal moves, each to a leaf.                     *)
Trees1(turn) ==
    {Node(turn, RootPieces, c) : c \in Tuples(Leaves(Other(turn)), 1, MaxFan)}

Small1(turn, leaves) ==
    {Node(turn, Corpus[3].pieces, c) : c \in Tuples(leaves, 1, 2)}

(* Height 2: two legal moves, or MaxFan moves with a single reply each.    *)
Trees2(turn) ==
    {Node(turn, RootPieces, c) :
        c \in Tuples(Small1(Other(turn), FewLeaves(turn)) \cup {Leaf(Other(turn), Corpus[1], "draw")}, 2, 2)}
    \cup
    {Node(turn, RootPieces, c) :
        c \in Tuples({Node(Other(turn), Corpus[1].pieces, << l >>) : l \in TwoLeaves(turn)},
                     MaxFan, MaxFan)}

(* Height 3: binary, the leaves taking two values.                         *)
Trees3(turn) ==
    LET h1(t) == {Node(t, Corpus[3].pieces, c) : c \in Tuples(TwoLeaves(Other(t)), 2, 2)}
        h2(t) == {Node(t, Corpus[2].pieces, c) : c \in Tuples(h1(Other(t)), 2, 2)}
    IN {Node(turn, RootPieces, c) : c \in Tuples(h2(Other(turn)), 2, 2)}

Trees(h, turn) ==
    CASE h = 1 -> Trees1(turn)
      [] h = 2 -> Trees2(turn)
      [] OTHER -> Trees3(turn)

(* A root position without legal moves.                                    *)
TerminalRoots(turn) ==
    {Leaf(turn, Corpus[1], st) : st \in {"checkmate", "stalemate", "draw"}}

(* The colour-mirrored position: ranks flipped, colours and side to move   *)
(* swapped; a move keeps its name.                                         *)
MirrorPiece(p) == [p EXCEPT !.color = Other(p.color), !.row = 7 - p.row]

RECURSIVE Mirror(_)
Mirror(pos) ==
    [turn |-> Other(pos.turn), status |-> pos.status,
     pieces |-> {MirrorPiece(p) : p \in pos.pieces}, mob |-> pos.mob,
     kids |-> [i \in 1..Len(pos.kids) |->
                 [pos.kids[i] EXCEPT !.pos = Mirror(pos.kids[i].pos)]]]

-----------------------------------------------------------------------------
(* The initial position of chess and its twenty legal moves.               *)

BackRank == << "r", "n", "b", "q", "k", "b", "n", "r" >>

InitialPieces ==
    {[type |-> BackRank[f + 1], color |-> "b", row |-> 0, file |-> f] : f \in 0..7}
    \cup {[type |-> "p", color |-> "b", row |-> 1, file |-> f] : f \in 0..7}
    \cup {[type |-> "p", color |-> "w", row |-> 6, file |-> f] : f \in 0..7}
    \cup {[type |-> BackRank[f + 1], color |-> "w", row |-> 7, file |-> f] : f \in 0..7}

(* chess.moves() on the initial position: from + to, with the squares as   *)
(* row and file.                                                           *)
OpeningMoves == <<
    [uci |-> "a2a3", from |-> <<6, 0>>, to |-> <<5, 0>>],
    [uci |-> "a2a4", from |-> <<6, 0>>, to |-> <<4, 0>>],
    [uci |-> "b2b3", from |-> <<6, 1>>, to |-> <<5, 1>>],
    [uci |-> "b2b4", from |-> <<6, 1>>, to |-> <<4, 1>>],
    [uci |-> "c2c3", from |-> <<6, 2>>, to |-> <<5, 2>>],
    [uci |-> "c2c4", from |-> <<6, 2>>, to |-> <<4, 2>>],
    [uci |-> "d2d3", from |-> <<6, 3>>, to |-> <<5, 3>>],
    [uci |-> "d2d4", from |-> <<6, 3>>, to |-> <<4, 3>>],
    [uci |-> "e2e3", from |-> <<6, 4>>, to |-> <<5, 4>>],
    [uci |-> "e2e4", from |-> <<6, 4>>, to |-> <<4, 4>>],
    [uci |-> "f2f3", from |-> <<6, 5>>, to |-> <<5, 5>>],
    [uci |-> "f2f4", from |-> <<6, 5>>, to |-> <<4, 5>>],
    [uci |-> "g2g3", from |-> <<6, 6>>, to |-> <<5, 6>>],
    [uci |-> "g2g4", from |-> <<6, 6>>, to |-> <<4, 6>>],
    [uci |-> "h2h3", from |-> <<6, 7>>, to |-> <<5, 7>>],
    [uci |-> "h2h4", from |-> <<6, 7>>, to |-> <<4, 7>>],
    [uci |-> "b1a3", from |-> <<7, 1>>, to |-> <<5, 0>>],
    [uci |-> "b1c3", from |-> <<7, 1>>, to |-> <<5, 2>>],
    [uci |-> "g1f3", from |-> <<7, 6>>, to |-> <<5, 5>>],
    [uci |-> "g1h3", from |-> <<7, 6>>, to |-> <<5, 7>>] >>

(* chess.move(move) on the initial position: the piece changes square.     *)
AfterOpeningMove(m) ==
    {IF p.row = m.from[1] /\ p.file = m.from[2]
     THEN [p EXCEPT !.row = m.to[1], !.file = m.to[2]]
     ELSE p : p \in InitialPieces}

(* Black has twenty legal replies to every opening move.                   *)
OpeningPosition ==
    [turn |-> "w", status |-> "play", pieces |-> InitialPieces,
     mob |-> Len(OpeningMoves),
     kids |-> [i \in 1..Len(OpeningMoves) |->
                 [uci |-> OpeningMoves[i].uci, captured |-> "none",
                  pos |-> [turn |-> "b", status |-> "play",
                           pieces |-> AfterOpeningMove(OpeningMoves[i]),
                           mob |-> 20, kids |-> << >>]]]]

-----------------------------------------------------------------------------
(* The engine on its own: evaluate is called on a position and on its      *)
(* colour-mirrored position.                                               *)

NoEval == [bestMoves |-> << >>, evaluation |-> 0, depth |-> 0]

Widths == {1, 5, 8}

EngineInit ==
    /\ \/ \E h \in 1..MaxDepth, turn \in {"w", "b"} :
             /\ ePos \in Trees(h, turn) \cup TerminalRoots(turn)
             /\ eDepth = h
       \/ ePos = OpeningPosition /\ eDepth = 1
    /\ eWidth \in Widths
    /\ eResult = NoEval
    /\ eMirror = NoEval
    /\ ePc = "idle"
    /\ OnlyEngine

EvaluateCall ==
    /\ ePc = "idle"
    /\ eResult' = Evaluate(ePos, eDepth, eWidth)
    /\ ePc' = "evaluated"
    /\ UNCHANGED <<ePos, eDepth, eWidth, eMirror>>
    /\ UNCHANGED notEngine

EvaluateMirrorCall ==
    /\ ePc = "evaluated"
    /\ eMirror' = Evaluate(Mirror(ePos), eDepth, eWidth)
    /\ ePc' = "mirrored"
    /\ UNCHANGED <<ePos, eDepth, eWidth, eResult>>
    /\ UNCHANGED notEngine

EngineNext == EvaluateCall \/ EvaluateMirrorCall

SpecEngine == EngineInit /\ [][EngineNext]_vars

-----------------------------------------------------------------------------
(* adaptive-engine.ts.  Fractions are kept in fixed point: weights, rates  *)
(* and accuracies in thousandths, scores in ten-thousandths, target        *)
(* evaluations in thousandths of a centipawn.                              *)

BLUNDER_THRESHOLD == 300

MISTAKE_THRESHOLD == 100

INACCURACY_THRESHOLD == 50

(* selectMove asks for evaluate(fen, 16, 8); analyzePlayerMove for         *)
(* evaluate(fen, 16, 1).                                                   *)
SELECT_DEPTH == 16

SELECT_WIDTH == 8

ANALYZE_WIDTH == 1

Personalities == {"grinder", "attacker", "trickster", "mentor"}

(* buildConfig: the base configuration overridden by the personality's.    *)
BuildConfig(personality) ==
    CASE personality = "grinder" ->
           [adaptiveStrength |-> 700, humanPlausibility |-> 800,
            complexityBias |-> 200, mistakeRate |-> 30]
      [] personality = "attacker" ->
           [adaptiveStrength |-> 500, humanPlausibility |-> 600,
            complexityBias |-> 800, mistakeRate |-> 80]
      [] personality = "trickster" ->
           [adaptiveStrength |-> 600, humanPlausibility |-> 500,
            complexityBias |-> 700, mistakeRate |-> 60]
      [] OTHER ->
           [adaptiveStrength |-> 800, humanPlausibility |-> 900,
            complexityBias |-> 500, mistakeRate |-> 40]

(* new AdaptiveEngine(engine, personality)                                 *)
NewAdaptiveEngine(personality) ==
    [personality |-> personality, config |-> BuildConfig(personality),
     rollingAccuracy |-> << >>, momentumStreak |-> 0]

RECURSIVE SumSeq(_)
SumSeq(q) == IF q = << >> THEN 0 ELSE Head(q) + SumSeq(Tail(q))

(* array.slice(-n)                                                         *)
LastN(q, n) == SubSeq(q, Max(1, Len(q) - n + 1), Len(q))

(* estimatePlayerStrength, in thousandths.                                 *)
EstimatePlayerStrength(engine, elo) ==
    IF Len(engine.rollingAccuracy) < 3 THEN (elo * 1000) \div 2500
    ELSE LET recentAccuracy == LastN(engine.rollingAccuracy, 5)
             avgAccuracy == SumSeq(recentAccuracy) \div Len(recentAccuracy)
             momentumBonus == IF engine.momentumStreak > 2 THEN 100 ELSE 0
         IN Min(1000, avgAccuracy + momentumBonus)

(* adjustTargetForPlayer, in thousandths of a centipawn.                   *)
AdjustTargetForPlayer(baseTarget, playerStrength) ==
    baseTarget + (playerStrength - 500) * 100

(* humanPlausibilityScore, in ten-thousandths.                             *)
HumanPlausibilityScore(move, elo) ==
    LET evalDiff == Abs(move.evaluation)
    IN IF move.isPV THEN 4000 + (elo * 12) \div 5
       ELSE IF evalDiff < 50 THEN 7000
       ELSE IF evalDiff < 150 THEN 8000 - (elo * 6) \div 5
       ELSE IF evalDiff < 300 THEN 7000 - elo * 2
       ELSE 3000 - (elo * 6) \div 5

(* estimateComplexity, in ten-thousandths.                                 *)
EstimateComplexity(move, game) ==
    LET evalTension == Max(0, 10000 - (Abs(move.evaluation) * 100) \div 3)
        phaseBonus == IF game.gamePhase = "middlegame" THEN 3000 ELSE 0
    IN Min(10000, evalTension + phaseBonus)

(* scoreMove, in ten-thousandths.                                          *)
ScoreMove(engine, move, moveEvalForEngine, targetEval, elo, game) ==
    LET w2 == engine.config.humanPlausibility
        w3 == engine.config.complexityBias
        evalDistance == Abs(moveEvalForEngine * 1000 - targetEval)
        evalScore == Max(0, 10000 - evalDistance \div 50)
        humanScore == HumanPlausibilityScore(move, elo)
        complexityScore == EstimateComplexity(move, game)
    IN evalScore + (w2 * humanScore) \div 1000 + (w3 * complexityScore) \div 1000

(* applyPersonalityFilter: the bonus of one candidate.                     *)
PersonalityBonus(personality, move) ==
    CASE personality = "attacker" -> IF move.evaluation > 50 THEN 2000 ELSE 0
      [] personality = "grinder" -> IF Abs(move.evaluation) < 50 THEN 2000 ELSE 0
      [] personality = "trickster" ->
           IF ~move.isPV /\ move.evaluation > -100 THEN 2500 ELSE 0
      [] OTHER -> IF Abs(move.evaluation) < 100 THEN 1000 ELSE 0

ApplyPersonalityFilter(engine, moves) ==
    [i \in 1..Len(moves) |->
        [moves[i] EXCEPT !.score = @ + PersonalityBonus(engine.personality, moves[i])]]

(* weightedRandomSelect.  The candidates are sorted by score, descending;  *)
(* every softmax weight exp((score - maxScore) / temperature) is positive, *)
(* so Math.random() * totalWeight can stop the loop at any index: pick is  *)
(* the index the draw stops at (the fall-through returns index 1).         *)
WeightedRandomSelect(moves, elo, pick) == SortByScore(moves)[pick]

(* What indexing an array past its end and spreading the result gives.     *)
UndefinedMove == [move |-> "undefined", evaluation |-> 0, depth |-> 0, isPV |-> FALSE]

(* MistakeIndex with the wrong array's length.                             *)
MistakeIndexWrongLength(r, nWorse, nAll) == (r * nAll) \div 1000 + 1

(* Math.floor(Math.random() * worseOptions.length), as a 1-based index; r  *)
(* is the draw in thousandths.                                             *)
MistakeIndex(r, nWorse, nAll) == (r * nWorse) \div 1000 + 1

(* baseRate + Math.max(0, (1500 - profile.elo) / 5000), in thousandths     *)
EffectiveRateHalved(baseRate, elo) == (baseRate + Max(0, (1500 - elo) \div 5)) \div 2

EffectiveRate(baseRate, elo) == baseRate + Max(0, (1500 - elo) \div 5)

(* Math.abs(selected.evaluation) > 300                                     *)
NeverDecided(selected) == FALSE

IsDecided(selected) == Abs(selected.evaluation) > 300

(* maybeInjectMistake; r1 and r2 are the two draws in thousandths.         *)
MaybeInjectMistake(engine, selected, allMoves, elo, r1, r2) ==
    LET effectiveRate == EffectiveRate(engine.config.mistakeRate, elo)
        IsWorse(m) == /\ m.move # selected.move
                      /\ Abs(m.evaluation - selected.evaluation) < 150
                      /\ Abs(m.evaluation - selected.evaluation) > 20
        worseOptions == SelectSeq(allMoves, IsWorse)
        idx == MistakeIndex(r2, Len(worseOptions), Len(allMoves))
        mistake == IF idx <= Len(worseOptions) THEN worseOptions[idx] ELSE UndefinedMove
    IN IF r1 > effectiveRate THEN [selected EXCEPT !.path = "sampled"]
       ELSE IF IsDecided(selected) THEN [selected EXCEPT !.path = "sampled"]
       ELSE IF Len(worseOptions) = 0 THEN [selected EXCEPT !.path = "sampled"]
       ELSE [move |-> mistake.move, evaluation |-> mistake.evaluation,
             depth |-> mistake.depth, isPV |-> mistake.isPV,
             score |-> (selected.score * 8) \div 10, path |-> "mistake"]

(* generateThinking                                                        *)
GenerateThinking(selected, best) ==
    LET evalDiff == Abs(selected.evaluation - best.evaluation)
    IN IF evalDiff < 10 THEN "strongest"
       ELSE IF selected.score > 8000 THEN "balanced"
       ELSE IF evalDiff < 50 THEN "solid"
       ELSE "interesting"

(* selectMove, given what engine.evaluate returned.  path records which    *)
(* return was taken.                                                       *)
SelectMove(engine, posEval, game, elo, pick, r1, r2) ==
    LET topMoves == posEval.bestMoves
    IN IF Len(topMoves) = 0
       THEN [ok |-> FALSE, error |-> "No legal moves available", move |-> "none",
             evaluation |-> 0, thinking |-> "none", path |-> "throw"]
       ELSE IF Len(topMoves) = 1
       THEN [ok |-> TRUE, error |-> "none", move |-> topMoves[1].move,
             evaluation |-> topMoves[1].evaluation, thinking |-> "only", path |-> "single"]
       ELSE
         LET currentEval == posEval.evaluation
             isEngineSideWhite == game.playerColor = "black"
             enginePerspectiveEval == IF isEngineSideWhite THEN currentEval ELSE -currentEval
             targetEval == enginePerspectiveEval * (1000 - engine.config.adaptiveStrength)
             playerStrength == EstimatePlayerStrength(engine, elo)
             adjustedTarget == AdjustTargetForPlayer(targetEval, playerStrength)
             scoredMoves == [i \in 1..Len(topMoves) |->
                 LET move == topMoves[i]
                     moveEvalForEngine == IF isEngineSideWhite THEN move.evaluation
                                          ELSE -move.evaluation
                 IN [move |-> move.move, evaluation |-> move.evaluation,
                     depth |-> move.depth, isPV |-> move.isPV, path |-> "none",
                     score |-> ScoreMove(engine, move, moveEvalForEngine,
                                         adjustedTarget, elo, game)]]
             personalityFiltered == ApplyPersonalityFilter(engine, scoredMoves)
             selected == WeightedRandomSelect(personalityFiltered, elo, pick)
             finalMove == MaybeInjectMistake(engine, selected, topMoves, elo, r1, r2)
         IN [ok |-> TRUE, error |-> "none", move |-> finalMove.move,
             evaluation |-> finalMove.evaluation,
             thinking |-> GenerateThinking(finalMove, topMoves[1]),
             path |-> finalMove.path]

(* updatePlayerAccuracy                                                    *)
UpdatePlayerAccuracy(engine, centipawnLoss) ==
    LET accuracy == Max(0, Min(1000, 1000 - centipawnLoss * 5))
        pushed == Append(engine.rollingAccuracy, accuracy)
    IN [engine EXCEPT
          !.rollingAccuracy = IF Len(pushed) > 10 THEN Tail(pushed) ELSE pushed,
          !.momentumStreak =
              IF centipawnLoss < 30 THEN Max(0, @) + 1
              ELSE IF centipawnLoss > 100 THEN Min(0, @) - 1
              ELSE 0]

(* const isBlunder = absoluteCPL > BLUNDER_THRESHOLD: the comparison off   *)
(* by one.                                                                 *)
IsBlunderStrict(absoluteCPL) == absoluteCPL > BLUNDER_THRESHOLD

(* const isBlunder = absoluteCPL >= BLUNDER_THRESHOLD                      *)
IsBlunder(absoluteCPL) == absoluteCPL >= BLUNDER_THRESHOLD

(* analyzePlayerMove from the two search results on: the GameMove it       *)
(* builds.                                                                 *)
ClassifyMove(evalBefore, evalAfter, uciMove, moveNumber) ==
    LET bestEval == evalBefore.evaluation
        actualEval == evalAfter.evaluation
        evalDrop == bestEval - actualEval
        absoluteCPL == Abs(evalDrop)
        isBlunder == IsBlunder(absoluteCPL)
        isMistake == ~isBlunder /\ absoluteCPL >= MISTAKE_THRESHOLD
        isInaccuracy == ~isBlunder /\ ~isMistake /\ absoluteCPL >= INACCURACY_THRESHOLD
        isBrilliant == /\ absoluteCPL <= 5
                       /\ Len(evalBefore.bestMoves) > 3
                       /\ evalBefore.bestMoves[1].move = uciMove
    IN [moveNumber |-> moveNumber, uci |-> uciMove, evaluation |-> actualEval,
        bestEval |-> bestEval, centipawnLoss |-> absoluteCPL,
        isBlunder |-> isBlunder, isMistake |-> isMistake,
        isInaccuracy |-> isInaccuracy, isBrilliant |-> isBrilliant,
        isPlayerMove |-> TRUE]

(* A search reaches the requested depth or the end of the known tree.      *)
SearchDepth(requested, height) == Min(requested, height)

(* analyzePlayerMove with the built-in engine: the two evaluate calls,     *)
(* then the classification.                                                *)
AnalyzePlayerMove(fenBefore, fenAfter, uciMove, moveNumber, height) ==
    LET evalBefore == Evaluate(fenBefore, SearchDepth(SELECT_DEPTH, height), ANALYZE_WIDTH)
        evalAfter == Evaluate(fenAfter, SearchDepth(SELECT_DEPTH, height), ANALYZE_WIDTH)
    IN ClassifyMove(evalBefore, evalAfter, uciMove, moveNumber)

-----------------------------------------------------------------------------
(* selectMove on its own.                                                  *)

(* The largest number of legal moves of a position selectMove is asked on. *)
MaxCandidates == 3

SelectLeaves(turn) ==
    {Leaf(turn, Corpus[i], "play") : i \in 1..2} \cup {Leaf(turn, Corpus[1], "checkmate")}

SelectTrees(turn) ==
    {Node(turn, RootPieces, c) : c \in Tuples(SelectLeaves(Other(turn)), 1, MaxCandidates)}

(* Math.random(), in thousandths.                                          *)
RandomDraws == {0, 999}

(* The AdaptiveEngine object at the start of a game and after three        *)
(* analysed player moves that lost 0, 50 and 100 centipawns.               *)
EngineStates(personality) ==
    {NewAdaptiveEngine(personality),
     UpdatePlayerAccuracy(UpdatePlayerAccuracy(UpdatePlayerAccuracy(
         NewAdaptiveEngine(personality), 0), 50), 100)}

Ratings == {1200, 2600}

SelectInit ==
    /\ \E turn \in {"w", "b"} : sPos \in SelectTrees(turn) \cup TerminalRoots(turn)
    /\ sDepth = 1
    /\ sGame \in [playerColor : {"white", "black"}, gamePhase : {"middlegame"}]
    /\ sElo \in Ratings
    /\ \E p \in Personalities : sEngine \in EngineStates(p)
    /\ sCands = << >>
    /\ sOut = "none"
    /\ sPc = "idle"
    /\ OnlySelect

(* One call of selectMove: the search, then the choice among what it       *)
(* returned, for some draws of Math.random().                              *)
SelectMoveCall ==
    /\ sPc = "idle"
    /\ LET posEval == Evaluate(sPos, SearchDepth(SELECT_DEPTH, sDepth), SELECT_WIDTH)
       IN /\ sCands' = posEval.bestMoves
          /\ \E pick \in 1..Max(1, Len(posEval.bestMoves)), r1 \in RandomDraws,
                r2 \in RandomDraws :
                sOut' = SelectMove(sEngine, posEval, sGame, sElo, pick, r1, r2)
    /\ sPc' = "done"
    /\ UNCHANGED <<sPos, sDepth, sGame, sElo, sEngine>>
    /\ UNCHANGED notSelect

SelectNext == SelectMoveCall

SpecSelect == SelectInit /\ [][SelectNext]_vars

(* C1: whenever the search returns at least one candidate selectMove       *)
(* returns, and returns one of the candidates' moves, on every path and    *)
(* for every draw; it fails only when the search returns no candidate.     *)
C1_SelectsACandidate ==
    sPc = "done" =>
        /\ Len(sCands) >= 1 =>
              (sOut.ok /\ \E i \in 1..Len(sCands) : sCands[i].move = sOut.move)
        /\ ~sOut.ok => Len(sCands) = 0

(* A call where mistake injection replaced the sampled candidate.          *)
C1_Witness ==
    /\ sPc = "done"
    /\ Len(sCands) >= 2
    /\ sOut.ok
    /\ sOut.path = "mistake"

(* The other paths of selectMove are taken too.                            *)
C1_WitnessSingle == sPc = "done" /\ sOut.path = "single"

C1_WitnessSampled == sPc = "done" /\ sOut.path = "sampled" /\ Len(sCands) >= 2

C1_WitnessThrow == sPc = "done" /\ sOut.path = "throw"

-----------------------------------------------------------------------------
(* analyzePlayerMove on its own: a position, one of its legal moves played *)
(* by the human, and the GameMove the analysis builds.                     *)

Kings(mob) == [pieces |-> {WK, BK}, mob |-> mob]

PawnD2(mob) ==
    [pieces |-> {WK, BK, [type |-> "p", color |-> "w", row |-> 6, file |-> 3]}, mob |-> mob]

KnightA1(mob) ==
    [pieces |-> {WK, BK, [type |-> "n", color |-> "w", row |-> 7, file |-> 0]}, mob |-> mob]

(* Boards whose evaluations put the centipawn loss on and beside each      *)
(* threshold.                                                              *)
AnalyzeBoards ==
    {Kings(1), Kings(3), Kings(4), Kings(25), Kings(26),
     PawnD2(10), PawnD2(11), KnightA1(15), KnightA1(16), Corpus[4]}

(* The positions a human move can lead to: the engine has one reply, or is *)
(* checkmated.                                                             *)
AnalyzeChildren(turn, boards) ==
    {Node(turn, Corpus[1].pieces, << Leaf(Other(turn), b, "play") >>) : b \in boards}

AnalyzeTrees(turn) ==
    {Node(turn, RootPieces, c) :
        c \in Tuples(AnalyzeChildren(Other(turn), AnalyzeBoards)
                        \cup {Leaf(Other(turn), Corpus[1], "checkmate")}, 1, 2)}
    \cup
    {Node(turn, RootPieces, c) :
        c \in Tuples(AnalyzeChildren(Other(turn), {Kings(1), Kings(26)}), MaxFan, MaxFan)}

AnalyzeInit ==
    /\ \E turn \in {"w", "b"} : aPos \in AnalyzeTrees(turn)
    /\ aEngine = NewAdaptiveEngine("mentor")
    /\ aMove = "none"
    /\ aBefore = NoEval
    /\ aOut = "none"
    /\ aPc = "idle"
    /\ OnlyAnalyze

(* The human plays legal move i; analyzePlayerMove evaluates the position  *)
(* before and after, builds the GameMove and updates the rolling accuracy. *)
AnalyzeCall ==
    /\ aPc = "idle"
    /\ \E i \in 1..Len(Moves(aPos)) :
          LET m == Moves(aPos)[i]
              gameMove == AnalyzePlayerMove(aPos, m.pos, m.uci, 1, 1)
          IN /\ aMove' = m.uci
             /\ aBefore' = Evaluate(aPos, SearchDepth(SELECT_DEPTH, 1), ANALYZE_WIDTH)
             /\ aOut' = gameMove
             /\ aEngine' = UpdatePlayerAccuracy(aEngine, gameMove.centipawnLoss)
    /\ aPc' = "done"
    /\ UNCHANGED aPos
    /\ UNCHANGED notAnalyze

AnalyzeNext == AnalyzeCall

SpecAnalyze == AnalyzeInit /\ [][AnalyzeNext]_vars

(* C6: the classifier sets centipawnLoss = |best evaluation before -       *)
(* evaluation after|, never negative, and from it blunder iff loss >= 300, *)
(* mistake iff 100 <= loss < 300, inaccuracy iff 50 <= loss < 100; at most *)
(* one of the three flags is set on a recorded move.                       *)
C6_Classification ==
    aPc = "done" =>
        LET loss == aOut.centipawnLoss
        IN /\ aOut.bestEval = aBefore.evaluation
           /\ loss = Abs(aOut.bestEval - aOut.evaluation)
           /\ loss >= 0
           /\ aOut.isBlunder <=> loss >= 300
           /\ aOut.isMistake <=> (100 <= loss /\ loss < 300)
           /\ aOut.isInaccuracy <=> (50 <= loss /\ loss < 100)
           /\ ~(aOut.isBlunder /\ aOut.isMistake)
           /\ ~(aOut.isBlunder /\ aOut.isInaccuracy)
           /\ ~(aOut.isMistake /\ aOut.isInaccuracy)

(* A move analysed with a loss of exactly 300, flagged a blunder.          *)
C6_Witness == aPc = "done" /\ aOut.centipawnLoss = 300 /\ aOut.isBlunder

(* The other thresholds are met exactly and missed by little.              *)
C6_WitnessMistake == aPc = "done" /\ aOut.centipawnLoss = 100 /\ aOut.isMistake

C6_WitnessInaccuracy == aPc = "done" /\ aOut.centipawnLoss = 50 /\ aOut.isInaccuracy

C6_WitnessBelow ==
    aPc = "done" /\ aOut.centipawnLoss = 48 /\ ~aOut.isInaccuracy /\ ~aOut.isMistake

(* C7: a human move is flagged brilliant exactly when its centipawn loss   *)
(* is at most 5, it is the search's top candidate for the position before  *)
(* the move, and at least 4 candidate moves were available there.          *)
C7_BrilliantIff ==
    aPc = "done" =>
        (aOut.isBrilliant <=>
            /\ aOut.centipawnLoss <= 5
            /\ Len(aBefore.bestMoves) > 0
            /\ aBefore.bestMoves[1].move = aMove
            /\ Len(Moves(aPos)) >= 4)

(* Beside C7: with the width of 1 analyzePlayerMove asks for, no move is   *)
(* ever flagged brilliant.                                                 *)
NeverBrilliant == aPc = "done" => ~aOut.isBrilliant

-----------------------------------------------------------------------------
(* The player profile (createDefaultProfile, updateProfileFromGame).       *)
(* Ratings and centipawn losses are integers; accuracies are held in       *)
(* thousandths and the expected score in millionths.  Of the profile, the  *)
(* rating, the two counters and the weaknesses are modelled; the blended   *)
(* skill and style values are not part of this state.                      *)

DEFAULT_ELO == 1200

RATING_FLOOR == 100

createDefaultProfile ==
    [elo |-> DEFAULT_ELO, gamesPlayed |-> 0, movesAnalyzed |-> 0, weaknesses |-> {}]

(* Math.floor(a / b) for b > 0.                                            *)
FloorDiv(a, b) == IF a >= 0 THEN a \div b ELSE -((-a + b - 1) \div b)

(* Math.round(num / den) for den > 0: halves round up.                     *)
Round(num, den) == FloorDiv(2 * num + den, 2 * den)

(* 1000 * 10^(j/16) for j = 0..16                                          *)
Pow10Table ==
    <<1000, 1155, 1334, 1540, 1778, 2054, 2371, 2738, 3162,
      3652, 4217, 4870, 5623, 6494, 7499, 8660, 10000>>

Pow10Int(n) == IF n = 0 THEN 1 ELSE IF n = 1 THEN 10 ELSE IF n = 2 THEN 100
               ELSE IF n = 3 THEN 1000 ELSE IF n = 4 THEN 10000 ELSE 100000

(* 1000 * Math.pow(10, d / 400), the table interpolated; 0 where the power *)
(* is below a thousandth.                                                  *)
Pow10Thousandths(d) ==
    LET q == FloorDiv(d, 400)
        r == d - 400 * q
        j == r \div 25
        f == r - 25 * j
        t == Pow10Table[j + 1] + ((Pow10Table[j + 2] - Pow10Table[j + 1]) * f) \div 25
    IN IF q <= -4 THEN 0
       ELSE IF q < 0 THEN t \div Pow10Int(-q)
       ELSE t * Pow10Int(q)

(* expectedScore = 1 / (1 + Math.pow(10, (elo - performanceElo) / 400)),   *)
(* in millionths.                                                          *)
ExpectedScore(elo, performanceElo) ==
    LET d == elo - performanceElo
    IN IF d >= 2400 THEN 0
       ELSE 1000000000 \div (1000 + Pow10Thousandths(d))

(* accuracyToElo, accuracy in thousandths                                  *)
accuracyToElo(accuracy) ==
    IF accuracy >= 950 THEN 2500 + (accuracy - 950) * 10
    ELSE IF accuracy >= 850 THEN 2000 + (accuracy - 850) * 5
    ELSE IF accuracy >= 700 THEN 1500 + ((accuracy - 700) * 3333) \div 1000
    ELSE IF accuracy >= 500 THEN 1000 + ((accuracy - 500) * 2500) \div 1000
    ELSE 400 + (accuracy * 1200) \div 1000

PlayerMoves(moves) == SelectSeq(moves, LAMBDA m : m.isPlayerMove)

RECURSIVE TotalCPL(_)
TotalCPL(moves) ==
    IF moves = << >> THEN 0 ELSE Head(moves).centipawnLoss + TotalCPL(Tail(moves))

(* accuracy = Math.max(0, Math.min(1, 1 - avgCPL / 200)), in thousandths   *)
GameAccuracy(playerMoves) ==
    Max(0, Min(1000, 1000 - (TotalCPL(playerMoves) * 5) \div Len(playerMoves)))

(* k = 16, whatever the number of games.                                   *)
KFactorFlat(gamesPlayed) == 16

(* k = Math.max(16, 40 - profile.gamesPlayed)                              *)
KFactor(gamesPlayed) == Max(16, 40 - gamesPlayed)

(* gameScore with the resignation left out of the decisive results.       *)
GameScoreCheckmateOnly(game) ==
    IF game.result.type = "null" THEN 500000
    ELSE IF game.result.type \in {"checkmate", "timeout"}
         THEN IF game.result.winner = game.playerColor THEN 1000000 ELSE 0
    ELSE 500000

(* gameScore, in millionths                                                *)
GameScore(game) ==
    IF game.result.type = "null" THEN 500000
    ELSE IF game.result.type \in {"checkmate", "resignation", "timeout"}
         THEN IF game.result.winner = game.playerColor THEN 1000000 ELSE 0
    ELSE 500000

(* eloChange = Math.round(k * (gameScore - expectedScore))                 *)
EloChange(profile, game) ==
    LET performanceElo == accuracyToElo(GameAccuracy(PlayerMoves(game.moves)))
    IN Round(KFactor(profile.gamesPlayed)
                * (GameScore(game) - ExpectedScore(profile.elo, performanceElo)),
             1000000)

(* detectWeaknesses, without the rule on think times (it needs more than   *)
(* 5 human moves and the time each took).                                  *)
detectWeaknesses(moves) ==
    LET playerMoves == PlayerMoves(moves)
        blunders == SelectSeq(playerMoves, LAMBDA m : m.isBlunder)
        earlyBlunders == SelectSeq(blunders, LAMBDA m : m.moveNumber <= 10)
        lateBlunders == SelectSeq(blunders, LAMBDA m : m.moveNumber > 30)
        tacticalMisses ==
            SelectSeq(playerMoves, LAMBDA m : m.centipawnLoss > 200 /\ ~m.isBlunder)
    IN (IF Len(blunders) > 0 /\ 10 * Len(earlyBlunders) > 4 * Len(blunders)
        THEN {"opening preparation"} ELSE {})
       \cup
       (IF Len(blunders) > 0 /\ 10 * Len(lateBlunders) > 4 * Len(blunders)
        THEN {"endgame technique"} ELSE {})
       \cup
       (IF 10 * Len(tacticalMisses) > Len(playerMoves)
        THEN {"tactical awareness"} ELSE {})

(* if (playerMoves.length === 0): the game is counted all the same.        *)
NoHumanMovesCounted(profile) ==
    [profile |-> [profile EXCEPT !.gamesPlayed = @ + 1], eloChange |-> 0]

(* if (playerMoves.length === 0) return { profile, eloChange: 0 }          *)
NoHumanMoves(profile) == [profile |-> profile, eloChange |-> 0]

(* elo: profile.elo + eloChange, the floor left out.                       *)
NewRatingUnfloored(elo, eloChange) == elo + eloChange

(* elo: Math.max(100, profile.elo + eloChange)                             *)
NewRating(elo, eloChange) == Max(RATING_FLOOR, elo + eloChange)

updateProfileFromGame(profile, game) ==
    LET playerMoves == PlayerMoves(game.moves)
    IN IF Len(playerMoves) = 0 THEN NoHumanMoves(profile)
       ELSE LET eloChange == EloChange(profile, game)
            IN [profile |->
                   [elo |-> NewRating(profile.elo, eloChange),
                    gamesPlayed |-> profile.gamesPlayed + 1,
                    movesAnalyzed |-> profile.movesAnalyzed + Len(playerMoves),
                    weaknesses |-> detectWeaknesses(game.moves)],
                eloChange |-> eloChange]

(* The games the profile is updated from: the human's moves are perfect,   *)
(* middling or poor; the game was won, lost, drawn or resigned.            *)
MaxGames == 2

MaxStreak == 50

HumanMove(cpl, n) ==
    [isPlayerMove |-> TRUE, centipawnLoss |-> cpl, isBlunder |-> IsBlunder(cpl),
     moveNumber |-> n]

EngineReply(n) ==
    [isPlayerMove |-> FALSE, centipawnLoss |-> 0, isBlunder |-> FALSE, moveNumber |-> n]

MoveLists ==
    { << >>,
      << EngineReply(1) >>,
      << HumanMove(0, 1), EngineReply(1), HumanMove(0, 2) >>,
      << HumanMove(60, 1), EngineReply(1), HumanMove(140, 2) >>,
      << HumanMove(250, 1), EngineReply(1), HumanMove(350, 2) >> }

GameResults ==
    { [type |-> "checkmate", winner |-> "white"],
      [type |-> "checkmate", winner |-> "black"],
      [type |-> "resignation", winner |-> "black"],
      [type |-> "stalemate", winner |-> "none"] }

FinishedGames ==
    [moves : MoveLists, result : GameResults, playerColor : {"white"}]

(* A game the human lost by checkmate without losing a centipawn.          *)
LostPerfectGame ==
    [moves |-> << HumanMove(0, 1), EngineReply(1), HumanMove(0, 2) >>,
     result |-> [type |-> "checkmate", winner |-> "black"],
     playerColor |-> "white"]

ProfileInit ==
    /\ pProfile = createDefaultProfile
    /\ pBefore = "none"
    /\ pGame = "none"
    /\ pChange = 0
    /\ pCalls = 0
    /\ pStreak = 0
    /\ OnlyProfile

UpdateProfile(game) ==
    LET out == updateProfileFromGame(pProfile, game)
    IN /\ pProfile' = out.profile
       /\ pChange' = out.eloChange
       /\ pGame' = game
       /\ pBefore' = pProfile

(* updateProfileFromGame on any finished game.                             *)
UpdateProfileCall ==
    /\ pCalls < MaxGames
    /\ \E game \in FinishedGames : UpdateProfile(game)
    /\ pCalls' = pCalls + 1
    /\ UNCHANGED pStreak
    /\ UNCHANGED notProfile

(* updateProfileFromGame on one more lost game of a long losing run.       *)
UpdateProfileLostCall ==
    /\ pStreak < MaxStreak
    /\ UpdateProfile(LostPerfectGame)
    /\ pStreak' = pStreak + 1
    /\ UNCHANGED pCalls
    /\ UNCHANGED notProfile

ProfileNext == UpdateProfileCall \/ UpdateProfileLostCall

SpecProfile == ProfileInit /\ [][ProfileNext]_vars

(* C5: after any sequence of updateProfileFromGame calls from the default  *)
(* profile, whatever the results and move qualities, the rating is never   *)
(* below 100.                                                              *)
C5_RatingFloor == pProfile.elo >= 100

(* The case of C19: the default profile (rating 1200, no game played) and  *)
(* a game the human lost by checkmate after at least one move.             *)
LostAtDefault ==
    /\ pCalls + pStreak > 0
    /\ pBefore.elo = 1200 /\ pBefore.gamesPlayed = 0
    /\ pGame.result.type = "checkmate" /\ pGame.result.winner # pGame.playerColor
    /\ Len(PlayerMoves(pGame.moves)) >= 1

(* C19 as stated: in that case K is 40, the rating delta is strictly below *)
(* 0 and the new rating is max(100, 1200 + delta), whatever the centipawn  *)
(* losses of the human's moves.                                            *)
C19_LossDeltaNegative ==
    LostAtDefault =>
        /\ KFactor(pBefore.gamesPlayed) = 40
        /\ pChange < 0
        /\ pProfile.elo = Max(100, 1200 + pChange)

(* C19 amended: in that case K is 40, the rating delta lies in -40..0 and  *)
(* is strictly negative when the average centipawn loss is at most 150,    *)
(* -40 for a game without loss, 0 when the average loss is 200 or more,    *)
(* and the new rating is max(100, 1200 + delta).                           *)
C19_LossDeltaNotPositive ==
    LostAtDefault =>
        /\ KFactor(pBefore.gamesPlayed) = 40
        /\ pChange <= 0 /\ pChange >= -40
        /\ GameAccuracy(PlayerMoves(pGame.moves)) >= 250 => pChange < 0
        /\ GameAccuracy(PlayerMoves(pGame.moves)) = 1000 => pChange = -40
        /\ GameAccuracy(PlayerMoves(pGame.moves)) = 0 => pChange = 0
        /\ pProfile.elo = Max(100, 1200 + pChange)

(* The lost game leaves the rating where it was: the human's moves lost    *)
(* 300 centipawns on average.                                              *)
C19_Witness == LostAtDefault /\ pChange = 0 /\ pProfile.elo = 1200

C19_WitnessNegative == LostAtDefault /\ pChange = -40

(* C20: updateProfileFromGame on a game without a human move returns the   *)
(* profile it was given, unchanged, and a rating delta of 0, for every     *)
(* result.                                                                 *)
C20_NoHumanMoveNoChange ==
    (pCalls + pStreak > 0 /\ Len(PlayerMoves(pGame.moves)) = 0) =>
        pProfile = pBefore /\ pChange = 0

(* A resigned game in which only the engine moved, after a game that       *)
(* counted.                                                                *)
C20_Witness ==
    /\ pCalls + pStreak > 0
    /\ Len(PlayerMoves(pGame.moves)) = 0 /\ Len(pGame.moves) = 1
    /\ pGame.result.type = "resignation"
    /\ pBefore.gamesPlayed > 0 /\ pBefore.weaknesses # {}
    /\ pProfile = pBefore

(* A losing streak has brought the rating to the floor: the last game was  *)
(* lost, its change would have taken the rating below 100, and the rating  *)
(* is exactly 100.                                                         *)
C5_Witness ==
    /\ pCalls + pStreak > 0
    /\ GameScore(pGame) = 0
    /\ pBefore.elo + pChange < 100
    /\ pProfile.elo = 100

-----------------------------------------------------------------------------
(* useChessGame.ts: the game session.  Display-only React state (fen,      *)
(* evalBar, lastComment) is not modelled.                                  *)

(* calculateTension, in thousandths.                                       *)
RECURSIVE SumAbsEval(_)
SumAbsEval(moves) ==
    IF moves = << >> THEN 0 ELSE Abs(Head(moves).evaluation) + SumAbsEval(Tail(moves))

LeadChanges(moves) ==
    Cardinality({i \in 2..Len(moves) :
                    (moves[i].evaluation > 0) # (moves[i - 1].evaluation > 0)})

TensionUnclamped(x) == x

ClampTension(x) == Min(10000, Max(0, x))

CalculateTension(moves) ==
    IF Len(moves) < 4 THEN 5000
    ELSE LET evalTension == Max(0, 10000 - (SumAbsEval(moves) * 20) \div Len(moves))
             changeTension == Min(3000, LeadChanges(moves) * 500)
             lastFewEvals == LastN(moves, 6)
             endgameTension ==
                 Max(0, 3000 - (SumAbsEval(lastFewEvals) * 100) \div (Len(lastFewEvals) * 3))
         IN ClampTension(evalTension \div 2 + changeTension + endgameTension)

(* makePlayerMove: calculateTension(newMoves) || 5                         *)
PlayerTensionScore(newMoves) ==
    IF CalculateTension(newMoves) = 0 THEN 5000 ELSE CalculateTension(newMoves)

(* makeEngineMove: calculateTension(newMoves)                              *)
EngineTensionScore(newMoves) == CalculateTension(newMoves)

(* detectGamePhase                                                         *)
DetectGamePhase(pos, moveNum) ==
    LET pieceCount == Cardinality(pos.pieces)
        majorPieces == Cardinality({q \in pos.pieces : q.type \in {"q", "r"}})
    IN IF moveNum <= 10 /\ pieceCount >= 28 THEN "opening"
       ELSE IF pieceCount <= 12 \/ majorPieces <= 2 THEN "endgame"
       ELSE "middlegame"

(* chess.moveNumber() after a number of half-moves from the start          *)
MoveNumber(n) == n \div 2 + 1

(* loadProfile: the stored profile, or the default one                     *)
loadProfile(stored) == IF stored = << >> THEN createDefaultProfile ELSE stored[1]

HISTORY_CAP == 100

(* games.splice(0, games.length - 100)                                     *)
EvictNewest(games) == SubSeq(games, 1, HISTORY_CAP)

EvictOldest(games) == LastN(games, HISTORY_CAP)

(* saveGameHistory                                                         *)
saveGameHistory(games, state) ==
    LET pushed == Append(games,
                     [id |-> state.id, moves |-> state.moves, result |-> state.result,
                      personality |-> state.personality,
                      playerColor |-> state.playerColor,
                      tensionScore |-> state.tensionScore])
    IN IF Len(pushed) > HISTORY_CAP THEN EvictOldest(pushed) ELSE pushed

NullResult == [type |-> "null", winner |-> "none"]

(* gameState before the first game: null                                   *)
NullGameState ==
    [id |-> 0, playerColor |-> "white", moves |-> << >>,
     playerProfile |-> createDefaultProfile, personality |-> "mentor",
     gamePhase |-> "opening", tensionScore |-> 5000, result |-> NullResult]

(* The game the rules library plays here: a few half-moves from the start, *)
(* every line ending in checkmate, stalemate or a draw.                    *)
MatedWhite == Leaf("w", Corpus[3], "checkmate")

MatedBlack == Leaf("b", Corpus[2], "checkmate")

Stalemated == Leaf("b", Corpus[1], "stalemate")

DrawnGame == Leaf("w", Corpus[1], "draw")

InitialPosition ==
    Node("w", Corpus[4].pieces,
         << Node("b", Corpus[4].pieces,
                 << MatedWhite,
                    Node("w", Corpus[2].pieces,
                         << MatedBlack,
                            Node("b", Corpus[2].pieces, << DrawnGame >>) >>) >>),
            Node("b", Corpus[2].pieces,
                 << Node("w", Corpus[1].pieces, << Stalemated >>) >>) >>)

MaxSessionGames == 2

SessionPersonalities == {"mentor"}

(* An engine that answers from a worker: its promise is settled in a later *)
(* task, and other events and timers are handled in between.               *)
EngineSettlesLater == FALSE

(* SimpleEngine.evaluate is an async function without an await: the        *)
(* promise it returns is already resolved, and whoever awaits it continues *)
(* in a microtask, before any other event or timer is handled.             *)
EngineSettlesInline == TRUE

(* The event loop takes the next event or timer when no microtask is left. *)
MacrotaskMayRun == EngineSettlesInline => frames = {}

NoAttempt == [uci |-> "none", ok |-> FALSE, game |-> 0, ply |-> 0]

SessionInit ==
    /\ chess = InitialPosition
    /\ plies = 0
    /\ gameState = NullGameState
    /\ gameOver = FALSE
    /\ isThinking = FALSE
    /\ moveHistory = << >>
    /\ engines = << >>
    /\ gamesStarted = 0
    /\ timers = {}
    /\ frames = {}
    /\ storedProfile = << >>
    /\ gameHistory = << >>
    /\ eloHistory = << >>
    /\ attempt = NoAttempt
    /\ fault = "none"
    /\ OnlySession

(* startGame.  The page offers it before the first game and, through New   *)
(* Game, once a game is over.                                              *)
StartGameUpTo(maxGames) ==
    /\ MacrotaskMayRun
    /\ gamesStarted < maxGames
    /\ gamesStarted = 0 \/ gameOver
    /\ \E playerColor \in {"white", "black"}, personality \in SessionPersonalities :
          LET newGameState ==
                  [id |-> gamesStarted + 1, playerColor |-> playerColor, moves |-> << >>,
                   playerProfile |-> loadProfile(storedProfile),
                   personality |-> personality, gamePhase |-> "opening",
                   tensionScore |-> 5000, result |-> NullResult]
          IN /\ gameState' = newGameState
             /\ engines' = Append(engines, NewAdaptiveEngine(personality))
             /\ timers' = IF playerColor = "black" THEN timers \cup {newGameState}
                          ELSE timers
    /\ chess' = InitialPosition
    /\ plies' = 0
    /\ moveHistory' = << >>
    /\ gameOver' = FALSE
    /\ gamesStarted' = gamesStarted + 1
    /\ UNCHANGED <<isThinking, frames, storedProfile, gameHistory, eloHistory>>
    /\ UNCHANGED <<attempt, fault>>
    /\ UNCHANGED notSession

StartGame == StartGameUpTo(MaxSessionGames)

IsPlayerTurn ==
    \/ Turn(chess) = "w" /\ gameState.playerColor = "white"
    \/ Turn(chess) = "b" /\ gameState.playerColor = "black"

(* The index of the legal move with this name, 0 if there is none.         *)
LegalIndex(board, uci) ==
    LET found == {j \in 1..Len(Moves(board)) : Moves(board)[j].uci = uci}
    IN IF found = {} THEN 0 ELSE CHOOSE j \in found : TRUE

(* if (!gameState || gameOver || isThinking) return false                  *)
PlayerMoveGuardIgnoresGameOver == gameState.id # 0 /\ ~isThinking

PlayerMoveGuard == gameState.id # 0 /\ ~gameOver /\ ~isThinking

(* The squares the human may drag a piece between: the legal moves of the  *)
(* position and one that is legal nowhere.                                 *)
IllegalMove == "a1a1"

AttemptedMoves(board) == {Moves(board)[i].uci : i \in 1..Len(Moves(board))} \cup {IllegalMove}

Attempt(uci, ok) == [uci |-> uci, ok |-> ok, game |-> gamesStarted, ply |-> plies]

(* makePlayerMove up to its await: the guards, chess.move, and the call of *)
(* analyzePlayerMove; or up to the return false of a guard or of a move    *)
(* the rules library does not accept.                                      *)
MakePlayerMoveCall ==
    /\ MacrotaskMayRun
    /\ \E uci \in AttemptedMoves(chess) :
          LET i == LegalIndex(chess, uci)
          IN IF ~PlayerMoveGuard \/ ~IsPlayerTurn \/ i = 0
             THEN /\ attempt' = Attempt(uci, FALSE)
                  /\ UNCHANGED <<chess, plies, frames>>
             ELSE /\ attempt' = Attempt(uci, TRUE)
                  /\ chess' = Moves(chess)[i].pos
                  /\ plies' = plies + 1
                  /\ frames' = frames \cup
                        {[kind |-> "player", gen |-> gamesStarted, state |-> gameState,
                          before |-> chess, after |-> Moves(chess)[i].pos,
                          uci |-> uci, moveNum |-> MoveNumber(plies + 1)]}
    /\ UNCHANGED <<gameState, gameOver, isThinking, moveHistory, engines, gamesStarted,
                   timers, storedProfile, gameHistory, eloHistory, fault>>
    /\ UNCHANGED notSession

(* The outcome handleGameEnd reads off the board.                          *)
BoardResult(board) ==
    IF IsCheckmate(board)
    THEN [type |-> "checkmate", winner |-> IF Turn(board) = "w" THEN "black" ELSE "white"]
    ELSE IF IsStalemate(board) THEN [type |-> "stalemate", winner |-> "none"]
    ELSE [type |-> "draw", winner |-> "none"]

ResultStr(endState) ==
    IF endState.result.winner = "none" THEN "draw"
    ELSE IF endState.result.winner = endState.playerColor THEN "win" ELSE "loss"

(* handleGameEnd                                                           *)
HandleGameEnd(finalState, board) ==
    LET endState == [finalState EXCEPT !.result = BoardResult(board)]
        updatedProfile == updateProfileFromGame(loadProfile(storedProfile), endState).profile
    IN /\ gameState' = endState
       /\ gameOver' = TRUE
       /\ storedProfile' = << updatedProfile >>
       /\ gameHistory' = saveGameHistory(gameHistory, endState)
       /\ eloHistory' = Append(eloHistory,
                           [elo |-> updatedProfile.elo, gameId |-> endState.id,
                            opponent |-> endState.personality,
                            result |-> ResultStr(endState)])

(* makePlayerMove from its await on.                                       *)
MakePlayerMoveResume ==
    \E f \in frames :
       /\ f.kind = "player"
       /\ LET gameMove == AnalyzePlayerMove(f.before, f.after, f.uci, f.moveNum,
                                            EngineMaxDepth)
              newMoves == Append(f.state.moves, gameMove)
              updatedState ==
                  [f.state EXCEPT !.moves = newMoves,
                                  !.gamePhase = DetectGamePhase(f.after, f.moveNum),
                                  !.tensionScore = PlayerTensionScore(newMoves)]
          IN /\ engines' = [engines EXCEPT
                               ![f.gen] = UpdatePlayerAccuracy(@, gameMove.centipawnLoss)]
             /\ moveHistory' = newMoves
             /\ IF IsGameOver(chess)
                THEN /\ HandleGameEnd(updatedState, chess)
                     /\ UNCHANGED timers
                ELSE /\ gameState' = updatedState
                     /\ timers' = timers \cup {updatedState}
                     /\ UNCHANGED <<gameOver, storedProfile, gameHistory, eloHistory>>
       /\ frames' = frames \ {f}
       /\ UNCHANGED <<chess, plies, isThinking, gamesStarted, attempt, fault>>
       /\ UNCHANGED notSession

(* A timer fires: makeEngineMove up to its await.                          *)
MakeEngineMoveCall ==
    /\ MacrotaskMayRun
    /\ \E t \in timers :
          /\ timers' = timers \ {t}
          /\ frames' = frames \cup
                {[kind |-> "engine", gen |-> gamesStarted, state |-> t,
                  before |-> chess, after |-> chess, uci |-> "none", moveNum |-> 0]}
    /\ isThinking' = TRUE
    /\ UNCHANGED <<chess, plies, gameState, gameOver, moveHistory, engines, gamesStarted,
                   storedProfile, gameHistory, eloHistory>>
    /\ UNCHANGED <<attempt, fault>>
    /\ UNCHANGED notSession

(* The catch branch of makeEngineMove: a random legal move, if there is    *)
(* one, goes on the board and nothing else is updated.                     *)
EngineMoveFailed ==
    /\ IF Len(Moves(chess)) > 0
       THEN /\ \E pick \in 1..Len(Moves(chess)) : chess' = Moves(chess)[pick].pos
            /\ plies' = plies + 1
       ELSE UNCHANGED <<chess, plies>>
    /\ UNCHANGED <<gameState, gameOver, moveHistory, storedProfile, gameHistory,
                   eloHistory>>

(* legalMoves[0], if there is one                                          *)
NoLegalMove(board) == 0

FirstLegal(board) == IF Len(Moves(board)) > 0 THEN 1 ELSE 0

(* The try branch of makeEngineMove after selectMove has answered; j is    *)
(* the selected move's index among the legal moves, 0 if it is not legal   *)
(* (then legalMoves[0] is played).                                         *)
EngineMoveApplied(f, result, j) ==
    LET played == IF j > 0 THEN j ELSE FirstLegal(chess)
        board == IF played > 0 THEN Moves(chess)[played].pos ELSE chess
        n == IF played > 0 THEN plies + 1 ELSE plies
        engineGameMove ==
            [moveNumber |-> MoveNumber(n), uci |-> result.move,
             evaluation |-> result.evaluation, bestEval |-> result.evaluation,
             centipawnLoss |-> 0, isBlunder |-> FALSE, isMistake |-> FALSE,
             isInaccuracy |-> FALSE, isBrilliant |-> FALSE, isPlayerMove |-> FALSE]
        newMoves == Append(f.state.moves, engineGameMove)
        updatedState ==
            [f.state EXCEPT !.moves = newMoves,
                            !.tensionScore = EngineTensionScore(newMoves),
                            !.gamePhase = DetectGamePhase(board, MoveNumber(n))]
    IN /\ chess' = board
       /\ plies' = n
       /\ moveHistory' = newMoves
       /\ IF IsGameOver(board)
          THEN HandleGameEnd(updatedState, board)
          ELSE /\ gameState' = updatedState
               /\ UNCHANGED <<gameOver, storedProfile, gameHistory, eloHistory>>

(* What the selector hands back: the move it selected, a move that is not  *)
(* legal in the position, or an error.                                     *)
SelectorFaults == {"none", "illegal", "fails"}

Selected(result, how) ==
    IF how = "illegal" THEN [result EXCEPT !.move = IllegalMove]
    ELSE IF how = "fails" THEN [result EXCEPT !.ok = FALSE]
    ELSE result

(* makeEngineMove from its await on.  chess.move on a move that is not     *)
(* legal returns null or throws, depending on the version of the library.  *)
MakeEngineMoveResumeWith(faults) ==
    \E f \in frames :
       /\ f.kind = "engine"
       /\ LET posEval == Evaluate(f.before, SearchDepth(SELECT_DEPTH, EngineMaxDepth),
                                  SELECT_WIDTH)
          IN \E pick \in 1..Max(1, Len(posEval.bestMoves)),
                r1 \in RandomDraws, r2 \in RandomDraws, throws \in BOOLEAN,
                how \in faults :
                LET result == Selected(SelectMove(engines[f.gen], posEval, f.state,
                                                  f.state.playerProfile.elo, pick, r1, r2),
                                       how)
                    j == LegalIndex(chess, result.move)
                IN /\ IF ~result.ok \/ (j = 0 /\ throws)
                      THEN EngineMoveFailed
                      ELSE EngineMoveApplied(f, result, j)
                   /\ fault' = IF ~result.ok THEN "fails"
                               ELSE IF j = 0 THEN "illegal" ELSE "none"
       /\ isThinking' = FALSE
       /\ frames' = frames \ {f}
       /\ UNCHANGED <<engines, gamesStarted, timers, attempt>>
       /\ UNCHANGED notSession

(* With the engine of this repository behind the selector.                 *)
MakeEngineMoveResume == MakeEngineMoveResumeWith({"none"})

(* With an engine behind the selector that may be out of step.             *)
MakeEngineMoveResumeFaulty == MakeEngineMoveResumeWith(SelectorFaults)

(* resign                                                                  *)
Resign ==
    /\ MacrotaskMayRun
    /\ gameState.id # 0 /\ ~gameOver
    /\ LET winner == IF gameState.playerColor = "white" THEN "black" ELSE "white"
           endState == [gameState EXCEPT
                           !.result = [type |-> "resignation", winner |-> winner]]
           updatedProfile ==
               updateProfileFromGame(loadProfile(storedProfile), endState).profile
       IN /\ gameState' = endState
          /\ storedProfile' = << updatedProfile >>
          /\ gameHistory' = saveGameHistory(gameHistory, endState)
    /\ gameOver' = TRUE
    /\ UNCHANGED <<chess, plies, isThinking, moveHistory, engines, gamesStarted,
                   timers, frames, eloHistory>>
    /\ UNCHANGED <<attempt, fault>>
    /\ UNCHANGED notSession

SessionNext ==
    \/ StartGame
    \/ MakePlayerMoveCall
    \/ MakePlayerMoveResume
    \/ MakeEngineMoveCall
    \/ MakeEngineMoveResume
    \/ Resign

SpecSession == SessionInit /\ [][SessionNext]_vars

(* The same session with an engine that may be out of step.                *)
MaxFaultyGames == 1

StartGameFaulty == StartGameUpTo(MaxFaultyGames)

SessionFaultyNext ==
    \/ StartGameFaulty
    \/ MakePlayerMoveCall
    \/ MakePlayerMoveResume
    \/ MakeEngineMoveCall
    \/ MakeEngineMoveResumeFaulty
    \/ Resign

SpecSessionFaulty == SessionInit /\ [][SessionFaultyNext]_vars

(* The session is between handlers: nothing is waiting to continue.       *)
Quiescent == frames = {}

(* C4: the stored profile is updated once per finished game: a game with   *)
(* at least one human move raises the stored gamesPlayed by exactly 1,     *)
(* never by 2, so it is 1 once the first game is over and never exceeds    *)
(* the number of games started.                                            *)
C4_ProfileUpdatedOncePerGame ==
    /\ loadProfile(storedProfile).gamesPlayed <= gamesStarted
    /\ (gamesStarted = 1 /\ gameOver /\ Quiescent
          /\ Len(PlayerMoves(gameState.moves)) >= 1)
       => loadProfile(storedProfile).gamesPlayed = 1

(* C9: between handlers, the session's move list holds exactly one entry   *)
(* for each half-move applied to the board since the game started, and     *)
(* move numbers never decrease along the list.                             *)
C9_OneMovePerPly ==
    (gameState.id # 0 /\ Quiescent) =>
        /\ Len(gameState.moves) = plies
        /\ \A i \in 2..Len(gameState.moves) :
              gameState.moves[i - 1].moveNumber <= gameState.moves[i].moveNumber

(* Beside C9: as long as no second game has been started in the session,   *)
(* the list and the board agree.                                           *)
OneMovePerPlyInFirstGame == gamesStarted = 1 => C9_OneMovePerPly

(* C10: at most one move computation (player-move analysis or engine move  *)
(* selection) is in progress at any time.                                  *)
C10_OneComputationAtATime == Cardinality(frames) <= 1

(* A computation is in progress while an engine-move timer is pending.     *)
C10_Witness == frames # {} /\ timers # {}

(* Beside C10: no event or timer is handled while a computation is in      *)
(* progress, so isThinking is never seen set by a handler's guard.         *)
ThinkingOnlyInsideAHandler == Quiescent => ~isThinking

(* The state of the session other than the record of the last calls.       *)
sessionState ==
    <<chess, plies, gameState, gameOver, isThinking, moveHistory, engines,
      gamesStarted, timers, frames, storedProfile, gameHistory, eloHistory>>

(* The cases in which makePlayerMove is to refuse the move.                *)
Rejectable(uci) ==
    \/ gameState.id = 0
    \/ gameOver
    \/ isThinking
    \/ ~IsPlayerTurn
    \/ LegalIndex(chess, uci) = 0

(* C15: a call of makePlayerMove with a move that is illegal, or made when *)
(* no game is active, the game is over, the engine is thinking or it is    *)
(* not the player's turn, returns false and leaves the board, the move     *)
(* list and the rest of the session state as they are.                     *)
C15_RejectedMoveChangesNothing ==
    [][(attempt' # attempt /\ Rejectable(attempt'.uci))
          => (~attempt'.ok /\ UNCHANGED sessionState)]_vars

(* a move was refused because the game is over: the human has resigned on  *)
(* their own turn and then asks for a move that the position allows        *)
C15_Witness ==
    /\ ~attempt.ok
    /\ attempt.game = gamesStarted /\ attempt.ply = plies
    /\ gameOver /\ Quiescent
    /\ IsPlayerTurn
    /\ LegalIndex(chess, attempt.uci) > 0

(* refused because the move is not legal, in a running game on the         *)
(* player's turn                                                           *)
C15_WitnessIllegal ==
    /\ ~attempt.ok /\ attempt.uci = IllegalMove
    /\ attempt.game = gamesStarted /\ attempt.ply = plies
    /\ gameState.id # 0 /\ ~gameOver /\ Quiescent
    /\ IsPlayerTurn /\ Len(Moves(chess)) > 0

(* refused because the engine is to move: its timer is still pending       *)
C15_WitnessNotPlayersTurn ==
    /\ ~attempt.ok /\ attempt.uci # IllegalMove /\ attempt.uci # "none"
    /\ attempt.game = gamesStarted /\ attempt.ply = plies
    /\ ~gameOver /\ ~IsPlayerTurn /\ timers # {}

(* refused because no game has been started                                *)
C15_WitnessNoGame ==
    /\ ~attempt.ok /\ attempt.uci # IllegalMove /\ attempt.uci # "none"
    /\ gameState.id = 0

(* an accepted move, for comparison                                        *)
C15_WitnessAccepted == attempt.ok /\ attempt.ply + 1 = plies

(* C16: when the selector hands back a move that is not legal in the       *)
(* position, or fails, and the position has legal moves, makeEngineMove    *)
(* puts exactly one legal move on the board and clears the thinking flag,  *)
(* and the game goes on: it is not marked over unless that move ended it.  *)
C16_FallbackMove ==
    [][(\E f \in frames : f.kind = "engine" /\ frames' = frames \ {f})
          /\ fault' # "none" /\ Len(Moves(chess)) > 0
       => /\ \E i \in 1..Len(Moves(chess)) : chess' = Moves(chess)[i].pos
          /\ plies' = plies + 1
          /\ ~isThinking'
          /\ (~gameOver /\ ~IsGameOver(chess')) => ~gameOver']_vars

(* the selector has failed in a running game, a move is on the board, the  *)
(* human is to move and the session takes moves                            *)
C16_Witness ==
    /\ fault = "fails"
    /\ plies > Len(gameState.moves)
    /\ gameState.id # 0 /\ ~gameOver /\ ~isThinking /\ Quiescent
    /\ IsPlayerTurn /\ ~IsGameOver(chess)

(* the selector has handed back a move that is not legal and the first     *)
(* legal move was played and recorded                                      *)
C16_WitnessIllegal ==
    /\ fault = "illegal"
    /\ plies = Len(gameState.moves) /\ plies > 0
    /\ gameState.moves[plies].uci = IllegalMove
    /\ ~gameOver /\ ~isThinking /\ Quiescent

-----------------------------------------------------------------------------
(* calculateTension on its own: a list of played moves with evaluations    *)
(* from quiet to decided, and the tension computed for it.                 *)

MaxTensionMoves == 6

TensionEvals == {-300, 0, 1, 99999}

TensionMove(e) == [evaluation |-> e]

TensionLists ==
    UNION {[1..n -> {TensionMove(e) : e \in TensionEvals}] : n \in 0..MaxTensionMoves}

TensionInit ==
    /\ tMoves \in TensionLists
    /\ tOut = 0
    /\ tPc = "ready"
    /\ OnlyTension

CalculateTensionCall ==
    /\ tPc = "ready"
    /\ tOut' = CalculateTension(tMoves)
    /\ tPc' = "done"
    /\ UNCHANGED <<tMoves, notTension>>

(* The tension the two move handlers put into the game state for the move *)
(* list they have just extended.                                           *)
PlayerMoveTension ==
    /\ tPc = "ready"
    /\ Len(tMoves) >= 1
    /\ tOut' = PlayerTensionScore(tMoves)
    /\ tPc' = "player"
    /\ UNCHANGED <<tMoves, notTension>>

EngineMoveTension ==
    /\ tPc = "ready"
    /\ Len(tMoves) >= 1
    /\ tOut' = EngineTensionScore(tMoves)
    /\ tPc' = "engine"
    /\ UNCHANGED <<tMoves, notTension>>

TensionNext ==
    \/ CalculateTensionCall
    \/ PlayerMoveTension
    \/ EngineMoveTension

SpecTension == TensionInit /\ [][TensionNext]_vars

(* C18: the tension computed for any list of moves lies between 0 and 10   *)
(* inclusive, and is exactly 5 for a list of fewer than four moves.        *)
C18_TensionInRange ==
    tPc = "done" =>
        /\ tOut >= 0
        /\ tOut <= 10000
        /\ Len(tMoves) < 4 => tOut = 5000

(* a list of six quiet moves whose lead changes at every move: the sum of  *)
(* the three terms is 10.5 and the result is cut to 10                     *)
C18_Witness ==
    /\ tPc = "done"
    /\ Len(tMoves) >= 4
    /\ LeadChanges(tMoves) >= 5
    /\ SumAbsEval(tMoves) <= 3
    /\ tOut = 10000

(* a list of four decided moves has no tension left                        *)
C18_WitnessZero ==
    /\ tPc = "done"
    /\ Len(tMoves) >= 4
    /\ tOut = 0

C18_WitnessShort ==
    /\ tPc = "done"
    /\ Len(tMoves) = 3
    /\ tOut = 5000

-----------------------------------------------------------------------------
(* saveGameHistory on its own: finished games are saved one after the      *)
(* other, each under the next id, into a history that starts empty.        *)

MaxSaves == 110

HistoryGame(n) ==
    [id |-> n, moves |-> << >>,
     result |-> [type |-> "resignation", winner |-> "black"],
     personality |-> "mentor", playerColor |-> "white", tensionScore |-> 5000]

HistoryInit ==
    /\ hGames = << >>
    /\ hSaved = 0
    /\ OnlyHistory

SaveGameHistoryCall ==
    /\ hSaved < MaxSaves
    /\ hGames' = saveGameHistory(hGames, HistoryGame(hSaved + 1))
    /\ hSaved' = hSaved + 1
    /\ UNCHANGED notHistory

HistoryNext == SaveGameHistoryCall

SpecHistory == HistoryInit /\ [][HistoryNext]_vars

(* C13: after any number of saves the stored history holds at most 100     *)
(* games, and they are the games saved last, in the order of saving.       *)
C13_HistoryKeepsLatest ==
    /\ Len(hGames) = Min(hSaved, HISTORY_CAP)
    /\ \A i \in 1..Len(hGames) : hGames[i].id = hSaved - Len(hGames) + i

(* more than 100 games were saved and the oldest have gone                 *)
C13_Witness ==
    /\ hSaved > HISTORY_CAP + 1
    /\ Len(hGames) = HISTORY_CAP
    /\ hGames[1].id = hSaved - HISTORY_CAP + 1
    /\ hGames[HISTORY_CAP].id = hSaved

-----------------------------------------------------------------------------
(* The storage helpers under any content of the three keys, and the parts  *)
(* of a game that use what they return.  A JSON value is a tagged record:  *)
(* null, an object without the fields of a profile, a number, a profile,   *)
(* a list.                                                                 *)

JsNull == [t |-> "null", v |-> << >>]

JsObject == [t |-> "object", v |-> << >>]

JsNumber == [t |-> "number", v |-> << >>]

JsProfile(p) == [t |-> "profile", v |-> << p >>]

JsArray(a) == [t |-> "array", v |-> a]

(* localStorage.getItem: null, a text JSON.parse rejects, or a JSON text   *)
Missing == [kind |-> "missing", value |-> JsNull]

Garbled == [kind |-> "garbled", value |-> JsNull]

Json(value) == [kind |-> "json", value |-> value]

ProfileBlobs ==
    {Missing, Garbled, Json(JsNull), Json(JsObject), Json(JsNumber),
     Json(JsArray(<< >>)), Json(JsProfile(createDefaultProfile))}

ListBlobs ==
    {Missing, Garbled, Json(JsNull), Json(JsObject), Json(JsArray(<< >>))}

(* loadProfile: the default for a missing key or a text that does not      *)
(* parse, and otherwise whatever JSON.parse returns                        *)
loadProfileFrom(blob) ==
    IF blob.kind = "json" THEN blob.value ELSE JsProfile(createDefaultProfile)

(* loadGameHistory, loadEloHistory                                         *)
loadGameHistoryFrom(blob) == IF blob.kind = "json" THEN blob.value ELSE JsArray(<< >>)

loadEloHistoryFrom(blob) == IF blob.kind = "json" THEN blob.value ELSE JsArray(<< >>)

(* selectMove reads profile.elo: a TypeError on null                       *)
SelectThrows(profile) == profile.t = "null"

(* updateProfileFromGame returns the profile as it is for a game without   *)
(* human moves; otherwise it reads profile.gamesPlayed (a TypeError on     *)
(* null) and profile.styleVector.aggressive (a TypeError on anything       *)
(* without a styleVector)                                                  *)
UpdateThrows(profile, game) == PlayerMoves(game.moves) # << >> /\ profile.t # "profile"

UpdatedJs(profile, game) ==
    IF PlayerMoves(game.moves) = << >> THEN profile
    ELSE JsProfile(updateProfileFromGame(profile.v[1], game).profile)

(* games.push, history.push: a TypeError on anything but a list            *)
PushThrows(list) == list.t # "array"

StorageGames == {LostPerfectGame, [LostPerfectGame EXCEPT !.moves = << >>]}

StorageInit ==
    /\ kProfile \in ProfileBlobs
    /\ kGames \in ListBlobs
    /\ kElo \in ListBlobs
    /\ kGame = JsNull
    /\ kErr = "none"
    /\ kPc = "idle"
    /\ OnlyStorage

(* startGame: the loaded profile goes into the game state                  *)
StorageStartGame ==
    /\ kPc = "idle"
    /\ kGame' = loadProfileFrom(kProfile)
    /\ kPc' = "started"
    /\ UNCHANGED <<kProfile, kGames, kElo, kErr>>
    /\ UNCHANGED notStorage

(* makeEngineMove: selectMove with the game state's profile                *)
StorageSelectMove ==
    /\ kPc = "started"
    /\ kErr' = IF SelectThrows(kGame) THEN "selectMove" ELSE kErr
    /\ kPc' = "selected"
    /\ UNCHANGED <<kProfile, kGames, kElo, kGame>>
    /\ UNCHANGED notStorage

(* The storage part of resign and of handleGameEnd (which also writes the  *)
(* rating log).                                                            *)
StorageEndGame(game, ratingLog) ==
    LET profile == loadProfileFrom(kProfile)
        games == loadGameHistoryFrom(kGames)
        history == loadEloHistoryFrom(kElo)
    IN IF UpdateThrows(profile, game)
       THEN /\ kErr' = "updateProfileFromGame"
            /\ UNCHANGED <<kProfile, kGames, kElo>>
       ELSE /\ kProfile' = Json(UpdatedJs(profile, game))
            /\ IF PushThrows(games)
               THEN /\ kErr' = "saveGameHistory"
                    /\ UNCHANGED <<kGames, kElo>>
               ELSE /\ kGames' = Json(JsArray(Append(games.v, "game")))
                    /\ IF ~ratingLog
                       THEN UNCHANGED <<kElo, kErr>>
                       ELSE IF UpdatedJs(profile, game).t = "null"
                       THEN /\ kErr' = "handleGameEnd"
                            /\ UNCHANGED kElo
                       ELSE IF PushThrows(history)
                       THEN /\ kErr' = "saveEloHistory"
                            /\ UNCHANGED kElo
                       ELSE /\ kElo' = Json(JsArray(Append(history.v, "entry")))
                            /\ UNCHANGED kErr

StorageResign ==
    /\ kPc \in {"started", "selected"}
    /\ \E game \in StorageGames : StorageEndGame(game, FALSE)
    /\ kPc' = "ended"
    /\ UNCHANGED kGame
    /\ UNCHANGED notStorage

StorageHandleGameEnd ==
    /\ kPc = "selected"
    /\ \E game \in StorageGames : StorageEndGame(game, TRUE)
    /\ kPc' = "ended"
    /\ UNCHANGED kGame
    /\ UNCHANGED notStorage

StorageNext ==
    \/ StorageStartGame
    \/ StorageSelectMove
    \/ StorageResign
    \/ StorageHandleGameEnd

SpecStorage == StorageInit /\ [][StorageNext]_vars

(* C14: whatever the three keys hold, the game state gets a usable         *)
(* profile and no error arises in selecting a move or ending a game.       *)
C14_StorageNeverBreaksPlay ==
    /\ kErr = "none"
    /\ kPc # "idle" => kGame.t = "profile"

(* Beside C14: it holds when every key is missing, does not parse, or      *)
(* holds what the program wrote.                                           *)
StorageUnreadableIsHarmless ==
    (/\ kProfile.kind = "json" => kProfile.value.t = "profile"
     /\ kGames.kind = "json" => kGames.value.t = "array"
     /\ kElo.kind = "json" => kElo.value.t = "array")
    => C14_StorageNeverBreaksPlay

(* a game has ended without an error on keys that did not parse            *)
StorageUnreadableWitness ==
    /\ kPc = "ended" /\ kErr = "none"
    /\ kProfile.kind = "json" /\ kGames.kind = "json" /\ kElo.kind = "garbled"

-----------------------------------------------------------------------------
(* StockfishEngine: the wrapper around the UCI worker.  The state is the   *)
(* object's fields, the commands the worker has not yet served, the lines  *)
(* it has posted that onmessage has not yet handled, and the evaluate      *)
(* calls made.                                                             *)

MaxSfCalls == 2

SfCalls == 1..MaxSfCalls

SfInfo(depth, pv, score, move) ==
    [kind |-> "info", depth |-> depth, multipv |-> pv,
     scoreType |-> score.type, value |-> score.value, move |-> move]

SfBestmove(move) ==
    [kind |-> "bestmove", depth |-> 0, multipv |-> 0,
     scoreType |-> "cp", value |-> 0, move |-> move]

(* The scores a search reports, from the side to move's point of view,     *)
(* best first: mate in one, a small plus, a small minus.                   *)
SfScores ==
    << [type |-> "mate", value |-> 1], [type |-> "cp", value |-> 30],
       [type |-> "cp", value |-> -50] >>

(* What the worker posts for a go command: at depth 1 its first guess, at  *)
(* depth 2 the lines it settles on, line 1 the best for the side to move,  *)
(* and the bestmove line.                                                  *)
SfOutput1(i) ==
    << SfInfo(1, 1, SfScores[2], "h4h5"), SfInfo(2, 1, SfScores[i], "d4d5"),
       SfBestmove("d4d5") >>

SfOutput2(i, j) ==
    << SfInfo(1, 1, SfScores[2], "h4h5"), SfInfo(1, 2, SfScores[2], "d4d5"),
       SfInfo(2, 1, SfScores[i], "d4d5"), SfInfo(2, 2, SfScores[j], "h4h5"),
       SfBestmove("d4d5") >>

WorkerOutputs(width) ==
    IF width = 1
    THEN {SfOutput1(i) : i \in 1..Len(SfScores)}
    ELSE {SfOutput2(p[1], p[2]) :
             p \in {q \in (1..Len(SfScores)) \X (1..Len(SfScores)) : q[1] <= q[2]}}

(* parseOutput: one info line turned into a MoveAnalysis                   *)
SfEvaluation(line, turn) ==
    LET evaluation ==
            IF line.scoreType = "mate"
            THEN IF line.value > 0 THEN MATE_SCORE - line.value
                 ELSE -MATE_SCORE - line.value
            ELSE line.value
    IN IF turn = "b" THEN -evaluation ELSE evaluation

SfAnalysis(line, turn) ==
    [move |-> line.move, evaluation |-> SfEvaluation(line, turn),
     depth |-> line.depth, isPV |-> line.multipv = 1]

(* the Map from line number to MoveAnalysis, as the pair of its keys in    *)
(* insertion order and its values                                          *)
RECURSIVE SfCollect(_, _, _, _)
SfCollect(lines, turn, keys, values) ==
    IF lines = << >> THEN [keys |-> keys, values |-> values]
    ELSE LET line == Head(lines)
             known == \E i \in 1..Len(keys) : keys[i] = line.multipv
         IN IF line.kind # "info" THEN SfCollect(Tail(lines), turn, keys, values)
            ELSE IF ~known
            THEN SfCollect(Tail(lines), turn, Append(keys, line.multipv),
                           Append(values, SfAnalysis(line, turn)))
            ELSE LET i == CHOOSE i \in 1..Len(keys) : keys[i] = line.multipv
                 IN IF line.depth >= values[i].depth
                    THEN SfCollect(Tail(lines), turn, keys,
                                   [values EXCEPT ![i] = SfAnalysis(line, turn)])
                    ELSE SfCollect(Tail(lines), turn, keys, values)

(* .sort((a, b) => b.evaluation - a.evaluation), a stable sort             *)
RECURSIVE SfInsert(_, _)
SfInsert(sorted, m) ==
    IF sorted = << >> THEN << m >>
    ELSE IF Head(sorted).evaluation >= m.evaluation
    THEN << Head(sorted) >> \o SfInsert(Tail(sorted), m)
    ELSE << m >> \o sorted

RECURSIVE SfSort(_)
SfSort(values) ==
    IF values = << >> THEN << >>
    ELSE SfInsert(SfSort(SubSeq(values, 1, Len(values) - 1)), values[Len(values)])

parseOutput(lines, turn) ==
    LET moves == SfCollect(lines, turn, << >>, << >>)
        first == {i \in 1..Len(moves.keys) : moves.keys[i] = 1}
        best == IF first = {} THEN [evaluation |-> 0, depth |-> 0]
                ELSE moves.values[CHOOSE i \in first : TRUE]
        mates == {i \in 1..Len(lines) :
                     /\ lines[i].kind = "info" /\ lines[i].multipv = 1
                     /\ lines[i].scoreType = "mate"}
    IN [bestMoves |-> SfSort(moves.values),
        evaluation |-> best.evaluation, depth |-> best.depth,
        mate |-> IF mates = {} THEN << >>
                 ELSE << lines[CHOOSE i \in mates : \A k \in mates : k <= i].value >>]

NoSfCall == [status |-> "idle", turn |-> "w", width |-> 0, lines |-> << >>]

StockfishInit ==
    /\ fWorker = "running"
    /\ fReady = TRUE
    /\ fQueue = << >>
    /\ fBuffer = << >>
    /\ fCollecting = FALSE
    /\ fJobs = << >>
    /\ fInbox = << >>
    /\ fCalls = [c \in SfCalls |-> NoSfCall]
    /\ OnlyStockfish

(* evaluate on an engine that is ready: the four commands are sent, the    *)
(* resolver is queued by collectOutput, and the call waits.                *)
SfEvaluate(c, turn, width) ==
    /\ fCalls[c].status = "idle"
    /\ \A d \in SfCalls : d < c => fCalls[d].status # "idle"
    /\ fReady /\ fWorker # "none"
    /\ fCollecting' = TRUE
    /\ fBuffer' = << >>
    /\ fQueue' = Append(fQueue, c)
    /\ fJobs' = Append(fJobs, [width |-> width])
    /\ fCalls' = [fCalls EXCEPT ![c] = [status |-> "pending", turn |-> turn,
                                          width |-> width, lines |-> << >>]]
    /\ UNCHANGED <<fWorker, fReady, fInbox>>
    /\ UNCHANGED notStockfish

SfEvaluateCall == \E c \in SfCalls, turn \in {"w", "b"}, width \in {1, 2} : SfEvaluate(c, turn, width)

(* The worker serves the next go command and posts its lines.              *)
WorkerSearches ==
    /\ fWorker = "running"
    /\ fJobs # << >>
    /\ \E output \in WorkerOutputs(Head(fJobs).width) : fInbox' = fInbox \o output
    /\ fJobs' = Tail(fJobs)
    /\ UNCHANGED <<fWorker, fReady, fQueue, fBuffer, fCollecting, fCalls>>
    /\ UNCHANGED notStockfish

(* The worker stops answering.                                             *)
WorkerHangs ==
    /\ fWorker = "running"
    /\ fWorker' = "hung"
    /\ UNCHANGED <<fReady, fQueue, fBuffer, fCollecting, fJobs, fInbox, fCalls>>
    /\ UNCHANGED notStockfish

(* worker.onmessage for the next posted line                               *)
OnMessage ==
    /\ fWorker # "none"
    /\ fInbox # << >>
    /\ LET line == Head(fInbox)
           collected == IF fCollecting THEN Append(fBuffer, line) ELSE fBuffer
       IN IF line.kind = "bestmove" /\ fQueue # << >>
          THEN /\ fCollecting' = FALSE
               /\ fQueue' = Tail(fQueue)
               /\ fCalls' = [fCalls EXCEPT ![Head(fQueue)].status = "resolved",
                                           ![Head(fQueue)].lines = Append(collected, line)]
               /\ fBuffer' = << >>
          ELSE /\ fBuffer' = collected
               /\ UNCHANGED <<fCollecting, fQueue, fCalls>>
    /\ fInbox' = Tail(fInbox)
    /\ UNCHANGED <<fWorker, fReady, fJobs>>
    /\ UNCHANGED notStockfish

(* destroy: the worker is terminated, its commands and lines go with it;   *)
(* the queue of resolvers is left as it is.                                *)
SfDestroy ==
    /\ fWorker # "none"
    /\ fWorker' = "none"
    /\ fReady' = FALSE
    /\ fJobs' = << >>
    /\ fInbox' = << >>
    /\ UNCHANGED <<fQueue, fBuffer, fCollecting, fCalls>>
    /\ UNCHANGED notStockfish

StockfishNext ==
    \/ SfEvaluateCall
    \/ WorkerSearches
    \/ WorkerHangs
    \/ OnMessage
    \/ SfDestroy

(* A worker that runs serves its commands, and the browser delivers the    *)
(* lines it has posted.                                                    *)
SpecStockfish ==
    /\ StockfishInit
    /\ [][StockfishNext]_vars
    /\ WF_vars(WorkerSearches)
    /\ WF_vars(OnMessage)

(* The PositionEval a resolved call returns.                               *)
SfResult(c) == parseOutput(fCalls[c].lines, fCalls[c].turn)

(* C11: every evaluate call eventually resolves, also when the worker      *)
(* never answers or the engine is destroyed while the call is pending.     *)
C11_EveryCallResolves ==
    \A c \in SfCalls : (fCalls[c].status = "pending") ~> (fCalls[c].status = "resolved")

(* Beside C11: a resolver is left in the queue of a destroyed engine.      *)
NoResolverLeftBehind == fWorker = "none" => fQueue = << >>

(* Beside C11: with a worker that runs and an engine that is not           *)
(* destroyed, the queue holds exactly the pending calls.                   *)
QueueHoldsPendingCalls ==
    /\ Len(fQueue) = Cardinality({c \in SfCalls : fCalls[c].status = "pending"})
    /\ \A i \in 1..Len(fQueue) : fCalls[fQueue[i]].status = "pending"

(* An evaluation from the point of view of the side to move.               *)
SfValue(m, turn) == IF turn = "w" THEN m.evaluation ELSE -m.evaluation

(* C17: what a resolved call returns is ordered best-first for the side to *)
(* move and its first element is the principal variation.                  *)
C17_StockfishContract ==
    \A c \in SfCalls :
        fCalls[c].status = "resolved" =>
            LET bestMoves == SfResult(c).bestMoves
                turn == fCalls[c].turn
            IN /\ \A i \in 1..Len(bestMoves), j \in 1..Len(bestMoves) :
                      i < j => SfValue(bestMoves[i], turn) >= SfValue(bestMoves[j], turn)
               /\ bestMoves # << >> => bestMoves[1].isPV

(* Beside C17: the evaluations are from White's point of view, and for     *)
(* White to move the list is best-first.                                   *)
StockfishContractForWhite ==
    \A c \in SfCalls :
        (fCalls[c].status = "resolved" /\ fCalls[c].turn = "w") =>
            LET bestMoves == SfResult(c).bestMoves
            IN \A i \in 1..Len(bestMoves), j \in 1..Len(bestMoves) :
                  i < j => bestMoves[i].evaluation >= bestMoves[j].evaluation

-----------------------------------------------------------------------------
(* Sessions in several windows of one browser, each with its own hook and  *)
(* event loop, all on the same localStorage.  getItem and setItem are each *)
(* atomic; nothing in the program makes the loadProfile and the            *)
(* saveProfile of one game end atomic against another window.              *)

MaxTabs == 2

Tabs == 1..MaxTabs

TabGames ==
    {g \in FinishedGames : PlayerMoves(g.moves) # << >>}

TabsInit ==
    /\ cStore = << >>
    /\ cTabs \in [Tabs -> {[pc |-> "playing", game |-> g, loaded |-> createDefaultProfile] :
                              g \in TabGames}]
    /\ OnlyTabs

(* handleGameEnd in one window: const profile = loadProfile()              *)
TabLoadProfile(s) ==
    /\ cTabs[s].pc = "playing"
    /\ cTabs' = [cTabs EXCEPT ![s].pc = "loaded", ![s].loaded = loadProfile(cStore)]
    /\ UNCHANGED cStore
    /\ UNCHANGED notTabs

(* handleGameEnd in one window: updateProfileFromGame and saveProfile      *)
TabSaveProfile(s) ==
    /\ cTabs[s].pc = "loaded"
    /\ cStore' = << updateProfileFromGame(cTabs[s].loaded, cTabs[s].game).profile >>
    /\ cTabs' = [cTabs EXCEPT ![s].pc = "done"]
    /\ UNCHANGED notTabs

TabsLoad == \E s \in Tabs : TabLoadProfile(s)

TabsSave == \E s \in Tabs : TabSaveProfile(s)

TabsNext == TabsLoad \/ TabsSave

SpecTabs == TabsInit /\ [][TabsNext]_vars

(* The profiles that updating p with the games of the windows in S, one    *)
(* after the other in some order, can give.                                *)
RECURSIVE OneAfterTheOther(_, _)
OneAfterTheOther(p, S) ==
    IF S = {} THEN {p}
    ELSE UNION {OneAfterTheOther(updateProfileFromGame(p, cTabs[s].game).profile, S \ {s}) :
                   s \in S}

(* C12: once the windows' games have ended, the stored gamesPlayed has     *)
(* risen by the number of games and the stored profile is what the         *)
(* updates give one after the other: no update is lost.                    *)
C12_NoLostUpdate ==
    (\A s \in Tabs : cTabs[s].pc = "done") =>
        /\ loadProfile(cStore).gamesPlayed = MaxTabs
        /\ loadProfile(cStore) \in OneAfterTheOther(createDefaultProfile, Tabs)

(* Beside C12: the stored gamesPlayed never exceeds the number of game     *)
(* ends that have saved, and is at least 1 once one has.                   *)
StoredGamesWithinEnds ==
    LET done == Cardinality({s \in Tabs : cTabs[s].pc = "done"})
    IN /\ loadProfile(cStore).gamesPlayed <= done
       /\ done > 0 => loadProfile(cStore).gamesPlayed >= 1

-----------------------------------------------------------------------------
(* Further properties of the session.                                      *)

NoOutcome == gameState.result = NullResult

(* C27: once an outcome is recorded, and until a new game is started, the  *)
(* outcome is not reset to empty, no move is applied to the board and none *)
(* is appended to the move list.                                           *)
C27_OutcomeIsFinal ==
    [][(gameState.id # 0 /\ gameOver /\ ~NoOutcome /\ gamesStarted' = gamesStarted)
          => /\ gameState'.result # NullResult
             /\ chess' = chess
             /\ plies' = plies
             /\ moveHistory' = moveHistory]_vars

(* C28: between handlers the session is never left with a finished board   *)
(* and an unfinished game: the outcome is recorded and the game marked     *)
(* over.                                                                   *)
C28_FinishedBoardIsRecorded ==
    (gameState.id # 0 /\ Quiescent /\ IsGameOver(chess)) =>
        /\ gameOver
        /\ ~NoOutcome

(* C29: once a finished game has been counted in the stored profile, the   *)
(* rating log has an entry for it and its last entry carries the stored    *)
(* rating.                                                                 *)
C29_RatingLogFollowsProfile ==
    loadProfile(storedProfile).gamesPlayed >= 1 =>
        /\ Len(eloHistory) >= loadProfile(storedProfile).gamesPlayed
        /\ eloHistory[Len(eloHistory)].elo = loadProfile(storedProfile).elo

(* Beside C30: in the games of this session the tensionScore is            *)
(* calculateTension of the move list; none of them reaches a tension of 0. *)
SessionTensionOfMoveList ==
    gameState.id # 0 =>
        /\ gameState.tensionScore = CalculateTension(gameState.moves)
        /\ gameState.tensionScore # 0

(* C30: after a player move and after an engine move, the tensionScore put *)
(* into the game state is calculateTension of the updated move list.       *)
C30_TensionOfMoveList ==
    tPc \in {"player", "engine"} => tOut = CalculateTension(tMoves)

(* Beside C30: it holds after engine moves, and after player moves unless  *)
(* calculateTension returns 0.                                             *)
TensionOfMoveListUnlessZero ==
    /\ tPc = "engine" => tOut = CalculateTension(tMoves)
    /\ (tPc = "player" /\ CalculateTension(tMoves) # 0) => tOut = CalculateTension(tMoves)

-----------------------------------------------------------------------------
(* maybeInjectMistake on its own: a candidate list, the sampled selection  *)
(* among it, a mistake rate and a rating; the two random draws are taken   *)
(* when it is called.                                                      *)

MaxMistakeCandidates == 3

MistakeEvals == {-50, 50, 70, 80, 200, 320, 400}

MistakeRates == {0, 40, 1000}

MistakeRatings == {1200, 1600}

MistakeDraws == {0, 500, 999}

MistakeCandidate(i, e) ==
    [move |-> MoveName[i], evaluation |-> e, depth |-> 1, isPV |-> i = 1]

MistakeLists ==
    UNION {{[i \in 1..n |-> MistakeCandidate(i, f[i])] : f \in [1..n -> MistakeEvals]} :
              n \in 1..MaxMistakeCandidates}

Sampled(m) ==
    [move |-> m.move, evaluation |-> m.evaluation, depth |-> m.depth, isPV |-> m.isPV,
     score |-> 5000, path |-> "sampled"]

MistakeInit ==
    /\ mAll \in MistakeLists
    /\ \E i \in 1..MaxMistakeCandidates : i <= Len(mAll) /\ mSelected = Sampled(mAll[i])
    /\ mRate \in MistakeRates
    /\ mElo \in MistakeRatings
    /\ mOut = Sampled(mAll[1])
    /\ mPc = "ready"
    /\ OnlyMistake

MaybeInjectMistakeCall ==
    /\ mPc = "ready"
    /\ \E r1 \in MistakeDraws, r2 \in MistakeDraws :
          mOut' = MaybeInjectMistake(
                      [NewAdaptiveEngine("mentor") EXCEPT !.config.mistakeRate = mRate],
                      mSelected, mAll, mElo, r1, r2)
    /\ mPc' = "done"
    /\ UNCHANGED <<mAll, mSelected, mRate, mElo, notMistake>>

MistakeNext == MaybeInjectMistakeCall

SpecMistake == MistakeInit /\ [][MistakeNext]_vars

(* The candidates other than the selection whose evaluation is more than   *)
(* 20 and less than 150 centipawns away from the selection's.              *)
NearMisses ==
    {i \in 1..Len(mAll) :
        /\ mAll[i].move # mSelected.move
        /\ Abs(mAll[i].evaluation - mSelected.evaluation) > 20
        /\ Abs(mAll[i].evaluation - mSelected.evaluation) < 150}

IsCandidate(m) ==
    \E i \in 1..Len(mAll) : mAll[i].move = m.move /\ mAll[i].evaluation = m.evaluation

(* C21: with a mistake rate of 1, a selection whose evaluation is 50 or    *)
(* -50 and a candidate between 20 and 150 centipawns away from it, the     *)
(* final move is not the selection and is one of the candidates, whatever  *)
(* the draws.                                                              *)
C21_MistakeAlwaysInjected ==
    (mPc = "done" /\ mRate = 1000 /\ Abs(mSelected.evaluation) = 50 /\ NearMisses # {})
        => /\ mOut.move # mSelected.move
           /\ IsCandidate(mOut)

C21_Witness ==
    /\ mPc = "done" /\ mRate = 1000 /\ Abs(mSelected.evaluation) = 50 /\ NearMisses # {}
    /\ mOut.path = "mistake"
    /\ mOut.move # mSelected.move
    /\ Len(mAll) = 3 /\ Cardinality(NearMisses) = 1

(* C24: a selection whose evaluation exceeds 300 centipawns in magnitude   *)
(* is returned as it is; a replacement is another candidate, more than 20  *)
(* and less than 150 centipawns away from the selection; without such a    *)
(* candidate the selection is kept.                                        *)
C24_MistakeOnlyWhenUndecided ==
    mPc = "done" =>
        /\ Abs(mSelected.evaluation) > 300 => mOut.move = mSelected.move
        /\ mOut.move # mSelected.move =>
              \E i \in NearMisses : mAll[i].move = mOut.move
                                      /\ mAll[i].evaluation = mOut.evaluation
        /\ NearMisses = {} => mOut.move = mSelected.move

(* a decided selection with a candidate in range and a rate that always    *)
(* hits: it is kept                                                        *)
C24_Witness ==
    /\ mPc = "done" /\ mRate = 1000
    /\ Abs(mSelected.evaluation) > 300
    /\ NearMisses # {}
    /\ mOut.move = mSelected.move

(* a replacement has been made                                             *)
C24_WitnessReplaced ==
    /\ mPc = "done"
    /\ mOut.move # mSelected.move
    /\ \E i \in 1..Len(mAll) : Abs(mAll[i].evaluation - mSelected.evaluation) = 150

(* candidates exactly 20 and exactly 150 centipawns away are no            *)
(* replacements                                                            *)
C24_WitnessBoundary ==
    /\ mPc = "done" /\ mRate = 1000
    /\ mSelected.evaluation = 50
    /\ Len(mAll) = 3 /\ NearMisses = {}
    /\ \E i \in 1..3 : mAll[i].evaluation = 70
    /\ \E i \in 1..3 : mAll[i].evaluation = 200
    /\ mOut.move = mSelected.move

-----------------------------------------------------------------------------
(* estimatePlayerStrength over a run of won games.  Every finished game    *)
(* goes through updateProfileFromGame; startGame builds a new AdaptiveEngine;   *)
(* each analysed player move goes through updatePlayerAccuracy; each       *)
(* engine move has selectMove estimate the strength from the engine's      *)
(* rolling accuracies and the stored rating.                               *)

MaxRunGames == 90
MaxAnalysed == 4
AnalysedLosses == {0, 250}

(* A game the human won by checkmate after two blunders.                   *)
WonCarelessGame ==
    [moves |-> << HumanMove(250, 1), EngineReply(1), HumanMove(350, 2) >>,
     result |-> [type |-> "checkmate", winner |-> "white"],
     playerColor |-> "white"]

(* (playerStrength - 0.5) * 100, in thousandths of a centipawn.            *)
TargetShift(playerStrength) ==
    AdjustTargetForPlayer(0, playerStrength)

StrengthInit ==
    /\ wProfile = createDefaultProfile
    /\ wEngine = NewAdaptiveEngine("mentor")
    /\ wStrength = -1
    /\ OnlyStrength

GameWon ==
    /\ wProfile.gamesPlayed < MaxRunGames
    /\ wProfile' = updateProfileFromGame(wProfile, WonCarelessGame).profile
    /\ wEngine' = NewAdaptiveEngine("mentor")
    /\ wStrength' = -1
    /\ UNCHANGED notStrength

PlayerMoveAnalysed ==
    /\ Len(wEngine.rollingAccuracy) < MaxAnalysed
    /\ \E cpl \in AnalysedLosses :
          wEngine' = UpdatePlayerAccuracy(wEngine, cpl)
    /\ wStrength' = -1
    /\ UNCHANGED wProfile
    /\ UNCHANGED notStrength

EstimateStrength ==
    /\ wStrength' = EstimatePlayerStrength(wEngine, wProfile.elo)
    /\ UNCHANGED <<wProfile, wEngine>>
    /\ UNCHANGED notStrength

StrengthNext == GameWon \/ PlayerMoveAnalysed \/ EstimateStrength

SpecStrength == StrengthInit /\ [][StrengthNext]_vars

(* C25: in every reachable state the strength selectMove estimates lies in *)
(* [0,1] (0..1000 thousandths), from the rolling accuracies and from the   *)
(* rating alike, so the target shift stays within 50 centipawns either     *)
(* way.                                                                    *)
C25_StrengthInUnitRange ==
    wStrength # -1 =>
        /\ wStrength \in 0..1000
        /\ TargetShift(wStrength) \in -50000..50000

(* The estimate is in range when it comes from the rolling accuracies.     *)
RollingStrengthInUnitRange ==
    (wStrength # -1 /\ Len(wEngine.rollingAccuracy) >= 3) =>
        wStrength \in 0..1000

(* The estimate is in range while the stored rating is at most 2500.       *)
StrengthInRangeUpTo2500 ==
    (wStrength # -1 /\ wProfile.elo <= 2500) => wStrength \in 0..1000

RatingAbove2500 == wProfile.elo > 2500

-----------------------------------------------------------------------------
(* The attacker's personality bonus.                                       *)

(* const moveEvalForEngine = isEngineSideWhite ? move.evaluation :         *)
(* -move.evaluation                                                        *)
MoveEvalForEngine(game, move) ==
    IF game.playerColor = "black" THEN move.evaluation ELSE -move.evaluation

(* The candidate of the colour-mirrored position: the same move, its       *)
(* White-perspective evaluation negated.                                   *)
MirroredCandidate(move) == [move EXCEPT !.evaluation = -move.evaluation]

AttackerCall ==
    /\ sPc = "done"
    /\ sEngine.personality = "attacker"
    /\ Len(sCands) >= 2

(* C26: with the attacker personality a candidate gets the bonus exactly   *)
(* when its evaluation from the engine's own side exceeds 50 centipawns,   *)
(* whichever colour the engine plays, and a candidate and its              *)
(* colour-mirrored counterpart get the same bonus.                         *)
C26_AttackerBonusForEngine ==
    AttackerCall =>
        \A i \in 1..Len(sCands) :
            /\ (PersonalityBonus("attacker", sCands[i]) > 0)
                   <=> (MoveEvalForEngine(sGame, sCands[i]) > 50)
            /\ PersonalityBonus("attacker", MirroredCandidate(sCands[i]))
                   = PersonalityBonus("attacker", sCands[i])

(* When the engine plays White the bonus follows its own evaluation.       *)
AttackerBonusWhenEngineIsWhite ==
    (AttackerCall /\ sGame.playerColor = "black") =>
        \A i \in 1..Len(sCands) :
            (PersonalityBonus("attacker", sCands[i]) > 0)
                <=> (MoveEvalForEngine(sGame, sCands[i]) > 50)

(* The engine plays Black and a candidate that is bad for it by more than  *)
(* 50 centipawns gets the bonus.                                           *)
AttackerBonusForLosingMove ==
    /\ AttackerCall
    /\ sGame.playerColor = "white"
    /\ \E i \in 1..Len(sCands) :
          /\ PersonalityBonus("attacker", sCands[i]) > 0
          /\ MoveEvalForEngine(sGame, sCands[i]) < -50

-----------------------------------------------------------------------------
(* evaluate on the initial position.                                       *)

OpeningCall ==
    /\ ePc # "idle"
    /\ ePos = OpeningPosition
    /\ eDepth = 1
    /\ eWidth = 5

ReturnedMoves(result) ==
    {result.bestMoves[i].move : i \in 1..Len(result.bestMoves)}

(* The evaluations of the list run one way, up or down.                    *)
SortedByEvaluation(ms) ==
    \/ \A i \in 1..(Len(ms) - 1) : ms[i].evaluation >= ms[i + 1].evaluation
    \/ \A i \in 1..(Len(ms) - 1) : ms[i].evaluation <= ms[i + 1].evaluation

(* C22: evaluate on the initial position with depth 1 and width 5 returns  *)
(* exactly the twenty legal opening moves, sorted by static evaluation,    *)
(* each reported with depth 1.                                             *)
C22_OpeningMovesAllReturned ==
    OpeningCall =>
        /\ Len(eResult.bestMoves) = 20
        /\ ReturnedMoves(eResult) = {OpeningMoves[i].uci : i \in 1..20}
        /\ SortedByEvaluation(eResult.bestMoves)
        /\ \A i \in 1..Len(eResult.bestMoves) : eResult.bestMoves[i].depth = 1

(* What the call does return: five of the legal moves, sorted, each with   *)
(* depth 1.                                                                *)
OpeningMovesCutToWidth ==
    OpeningCall =>
        /\ Len(eResult.bestMoves) = 5
        /\ ReturnedMoves(eResult) \subseteq {OpeningMoves[i].uci : i \in 1..20}
        /\ SortedByEvaluation(eResult.bestMoves)
        /\ \A i \in 1..Len(eResult.bestMoves) : eResult.bestMoves[i].depth = 1

(* With a width of at least the number of legal moves all are returned.    *)
AllMovesWithinWidth ==
    (ePc # "idle" /\ eWidth >= Len(Moves(ePos))) =>
        Len(eResult.bestMoves) = Len(Moves(ePos))

-----------------------------------------------------------------------------
(* The rating delta of a profile update.                                   *)

(* The last update was from a game with at least one human move.           *)
CountedGame ==
    /\ pCalls + pStreak > 0
    /\ Len(PlayerMoves(pGame.moves)) >= 1

DecisiveGame == pGame.result.type \in {"checkmate", "resignation", "timeout"}

WonByHuman == DecisiveGame /\ pGame.result.winner = pGame.playerColor

LostByHuman == DecisiveGame /\ pGame.result.winner # pGame.playerColor

(* C23: for every profile update with at least one human move the rating   *)
(* delta is round(K * (actual - expected)) with K = max(16, 40 - games     *)
(* played), actual 1 for a win, 0 for a loss, 0.5 otherwise; its size is   *)
(* at most K, it is never positive after a loss and never negative after   *)
(* a win; K after the game is no larger than before it and at least 16.    *)
C23_RatingDelta ==
    CountedGame =>
        LET k == Max(16, 40 - pBefore.gamesPlayed)
            kAfter == Max(16, 40 - pProfile.gamesPlayed)
            actual == IF WonByHuman THEN 1000000
                      ELSE IF LostByHuman THEN 0 ELSE 500000
            expected ==
                ExpectedScore(pBefore.elo,
                              accuracyToElo(GameAccuracy(PlayerMoves(pGame.moves))))
        IN /\ pChange = Round(k * (actual - expected), 1000000)
           /\ KFactor(pBefore.gamesPlayed) = k
           /\ pChange <= k /\ pChange >= -k
           /\ LostByHuman => pChange <= 0
           /\ WonByHuman => pChange >= 0
           /\ kAfter <= k /\ kAfter >= 16
           /\ pProfile.gamesPlayed = pBefore.gamesPlayed + 1

(* A resigned game after twenty-four or more games: K is 16 and the        *)
(* rating goes down.                                                       *)
C23_Witness ==
    /\ CountedGame
    /\ pGame.result.type = "resignation" /\ LostByHuman
    /\ pBefore.gamesPlayed >= 24
    /\ pChange < 0 /\ pChange >= -16

(* A won game that raises the rating by the whole of K.                    *)
C23_WitnessWon ==
    /\ CountedGame /\ WonByHuman
    /\ pChange = 40 /\ pBefore.gamesPlayed = 0

(* A stalemate that moves the rating either way.                           *)
C23_WitnessDrawn ==
    /\ CountedGame /\ pGame.result.type = "stalemate"
    /\ pChange # 0

-----------------------------------------------------------------------------
(* Reference definitions for the claims about the engine.                  *)

(* Exhaustive depth-limited minimax from White's perspective, no pruning.  *)
RECURSIVE Minimax(_, _)
Minimax(pos, depth) ==
    IF depth = 0 \/ IsGameOver(pos) THEN StaticEval(pos)
    ELSE LET vals == {Minimax(Moves(pos)[i].pos, depth - 1) : i \in 1..Len(Moves(pos))}
         IN IF Turn(pos) = "w"
            THEN CHOOSE v \in vals : \A w \in vals : w <= v
            ELSE CHOOSE v \in vals : \A w \in vals : v <= w

(* The position a named move of pos leads to.                              *)
After(pos, uci) ==
    Moves(pos)[CHOOSE i \in 1..Len(Moves(pos)) : Moves(pos)[i].uci = uci].pos

(* The minimax value of a move of pos for the side that makes it.          *)
MoverValue(pos, uci, depth) ==
    IF Turn(pos) = "w" THEN Minimax(After(pos, uci), depth - 1)
    ELSE -Minimax(After(pos, uci), depth - 1)

RECURSIVE AllNodes(_)
AllNodes(pos) ==
    {pos} \cup UNION {AllNodes(pos.kids[i].pos) : i \in 1..Len(pos.kids)}

(* C2: every candidate evaluate returns carries the depth-limited minimax  *)
(* value, from White's perspective, of the position its move leads to,     *)
(* whichever side is to move.                                              *)
C2_EvalIsWhiteMinimax ==
    ePc # "idle" =>
        \A i \in 1..Len(eResult.bestMoves) :
            eResult.bestMoves[i].evaluation
                = Minimax(After(ePos, eResult.bestMoves[i].move), eDepth - 1)

(* Beside C2: with Black to move the candidates do carry White's minimax   *)
(* value, so pruning changes no value.                                     *)
EvalIsWhiteMinimaxForBlack ==
    (ePc # "idle" /\ Turn(ePos) = "b") =>
        \A i \in 1..Len(eResult.bestMoves) :
            eResult.bestMoves[i].evaluation
                = Minimax(After(ePos, eResult.bestMoves[i].move), eDepth - 1)

(* Beside C2: with White to move every candidate carries the negated value. *)
EvalIsNegatedForWhite ==
    (ePc # "idle" /\ Turn(ePos) = "w") =>
        \A i \in 1..Len(eResult.bestMoves) :
            eResult.bestMoves[i].evaluation
                = -Minimax(After(ePos, eResult.bestMoves[i].move), eDepth - 1)

(* C3: the candidate list is ordered best-first for the side to move: the  *)
(* first candidate has the best minimax value for the mover among all      *)
(* legal moves, no later candidate is better for the mover than an earlier *)
(* one, and the best evaluation is the first candidate's.                  *)
C3_BestFirstForMover ==
    (ePc # "idle" /\ Len(eResult.bestMoves) > 0) =>
        LET bm == eResult.bestMoves
        IN /\ bm[1].isPV
           /\ \A j \in 1..Len(Moves(ePos)) :
                 MoverValue(ePos, Moves(ePos)[j].uci, eDepth)
                     <= MoverValue(ePos, bm[1].move, eDepth)
           /\ \A i \in 1..Len(bm) : \A j \in i..Len(bm) :
                 MoverValue(ePos, bm[j].move, eDepth) <= MoverValue(ePos, bm[i].move, eDepth)
           /\ eResult.evaluation = bm[1].evaluation

(* Beside C3: the order is best-first when Black is to move.               *)
BestFirstForBlack ==
    (ePc # "idle" /\ Turn(ePos) = "b" /\ Len(eResult.bestMoves) > 0) =>
        LET bm == eResult.bestMoves
        IN /\ \A j \in 1..Len(Moves(ePos)) :
                 MoverValue(ePos, Moves(ePos)[j].uci, eDepth)
                     <= MoverValue(ePos, bm[1].move, eDepth)
           /\ \A i \in 1..Len(bm) : \A j \in i..Len(bm) :
                 MoverValue(ePos, bm[j].move, eDepth) <= MoverValue(ePos, bm[i].move, eDepth)

(* C8: the evaluation of the colour-mirrored position is the negation of   *)
(* the evaluation of the position, for the static evaluation and for the   *)
(* best evaluation evaluate returns at the same depth and width.           *)
C8_MirrorNegatesEval ==
    ePc = "mirrored" =>
        /\ \A n \in AllNodes(ePos) : StaticEval(Mirror(n)) = -StaticEval(n)
        /\ eMirror.evaluation = -eResult.evaluation

(* Beside C8: the static evaluation alone is negated by mirroring.         *)
StaticEvalMirror ==
    \A n \in AllNodes(ePos) : StaticEval(Mirror(n)) = -StaticEval(n)

====
